---- MODULE Spec2Model ----
(***************************************************************************)
(* A model of the core of slog (src/src/lib.rs): the reference-counted     *)
(* key-value context chain (OwnedKVList), the Logger handle, and the       *)
(* Drain composition wrappers.                                             *)
(*                                                                         *)
(* Two specifications share the state:                                     *)
(*   Spec       the logger tree: root / new / clone / drop / log /         *)
(*              Debug formatting over a heap of Arc-counted chain nodes;   *)
(*   SpecDrain  the drain algebra: a drain is built with the Drain         *)
(*              combinators and then used through log and is_enabled.      *)
(***************************************************************************)
EXTENDS Integers, Sequences, FiniteSets, TLC

VARIABLES
    heap,       \* chain-node heap: id -> Arc<OwnedKVListNode | MultiListNode | ()>
    darc,       \* drain heap: id -> Arc<dyn Drain> (the erased drain of Logger::root)
    loggers,    \* the Logger handles client code holds, oldest first: {drain, list}
    hist,       \* ghost: per handle, the payloads given to root/new, oldest first
    D,          \* SpecDrain: the drain value under construction / in use
    poisoned,   \* the std::sync::Mutex wrappers whose guard was dropped by a panic
    build,      \* the build configuration (debug_assertions, cargo features)
    aborted,    \* the process was terminated by a panic
    fused,      \* ghost: some Fuse has already panicked in this run
    last,       \* observation of the last operation (its drain calls and result)
    threads,    \* SpecMutex, SpecThreads: what each thread is doing
    lock        \* SpecMutex: the thread that holds the MutexGuard, 0 for none

vars == <<heap, darc, loggers, hist, D, poisoned, build, aborted, fused, last,
          threads, lock>>

----------------------------------------------------------------------------
(* Bounds of the model *)

MaxNodes == 5
MaxDrains == 2
MaxLoggers == 2
MaxWrap == 2
MaxThreads == 2

----------------------------------------------------------------------------
(* Level and FilterLevel *)

Levels == {"Critical", "Error", "Warning", "Info", "Debug", "Trace"}

FilterLevels == {"Off"} \cup Levels

\* Level::as_usize
LevelAsUsize(l) ==
    CASE l = "Critical" -> 1
      [] l = "Error" -> 2
      [] l = "Warning" -> 3
      [] l = "Info" -> 4
      [] l = "Debug" -> 5
      [] l = "Trace" -> 6

FilterLevelAsUsizeOffLast(l) ==
    CASE l = "Off" -> 7
      [] l = "Critical" -> 1
      [] l = "Error" -> 2
      [] l = "Warning" -> 3
      [] l = "Info" -> 4
      [] l = "Debug" -> 5
      [] l = "Trace" -> 6

\* FilterLevel::as_usize
FilterLevelAsUsize(l) ==
    CASE l = "Off" -> 0
      [] l = "Critical" -> 1
      [] l = "Error" -> 2
      [] l = "Warning" -> 3
      [] l = "Info" -> 4
      [] l = "Debug" -> 5
      [] l = "Trace" -> 6

IsAtLeastStrict(l, level) == LevelAsUsize(l) < LevelAsUsize(level)

\* Level::is_at_least
IsAtLeast(l, level) == LevelAsUsize(l) <= LevelAsUsize(level)

\* __slog_static_max_level: cfg!(debug_assertions) and the cargo features
StaticMaxLevel(b) ==
    LET rel ==
            IF "release_max_level_off" \in b.features THEN "Off"
            ELSE IF "release_max_level_error" \in b.features THEN "Error"
            ELSE IF "release_max_level_warn" \in b.features THEN "Warning"
            ELSE IF "release_max_level_info" \in b.features THEN "Info"
            ELSE IF "release_max_level_debug" \in b.features THEN "Debug"
            ELSE IF "release_max_level_trace" \in b.features THEN "Trace"
            ELSE "none"
        gen ==
            IF "max_level_off" \in b.features THEN "Off"
            ELSE IF "max_level_error" \in b.features THEN "Error"
            ELSE IF "max_level_warn" \in b.features THEN "Warning"
            ELSE IF "max_level_info" \in b.features THEN "Info"
            ELSE IF "max_level_debug" \in b.features THEN "Debug"
            ELSE IF "max_level_trace" \in b.features THEN "Trace"
            ELSE IF ~b.debug_assertions THEN "Info"
            ELSE "Debug"
    IN  IF ~b.debug_assertions /\ rel # "none" THEN rel ELSE gen

\* The builds the model draws from: the default debug and release builds and
\* one build that lifts the static cap.
Builds ==
    { [debug_assertions |-> TRUE, features |-> {}],
      [debug_assertions |-> FALSE, features |-> {}],
      [debug_assertions |-> TRUE, features |-> {"max_level_trace"}] }

DefaultBuild == [debug_assertions |-> TRUE, features |-> {}]

----------------------------------------------------------------------------
(* Records and key-value payloads *)

\* A Record: only its level decides anything in the core.
Records == [level : Levels]

\* The payload of an OwnedKV: the keys it serializes, in serialization order.
Payloads == { <<"a">>, <<"b", "c">> }

----------------------------------------------------------------------------
(* The chain-node heap: Arc<dyn KV> cells *)

NodeIds == 1..MaxNodes

FreeNode == [k |-> "free", kv |-> <<>>, next |-> 0, node |-> 0, rc |-> 0]

\* Arc::new(()) : the terminator of a root chain
UnitNode == [k |-> "unit", kv |-> <<>>, next |-> 0, node |-> 0, rc |-> 1]

\* Arc::new(OwnedKVListNode { next_node, kv })
KVNode(kv, next) == [k |-> "kv", kv |-> kv, next |-> next, node |-> 0, rc |-> 1]

\* Arc::new(MultiListNode { next_node, node })
MultiNode(next, node) ==
    [k |-> "multi", kv |-> <<>>, next |-> next, node |-> node, rc |-> 1]

\* a cell whose memory was given back; the allocator hands an address out
\* again only when every address above it is unused
ReleasedNode == [k |-> "released", kv |-> <<>>, next |-> 0, node |-> 0, rc |-> 0]

Allocated(h) == {n \in DOMAIN h : h[n].k \notin {"free", "released"}}

FreeIds(h) == {n \in DOMAIN h : h[n].k = "free"}

\* the address the allocator hands out
NewId(h) == CHOOSE n \in FreeIds(h) : \A m \in FreeIds(h) : n <= m

\* the cell an address holds once its memory is given back
Reclaim(h, n) ==
    IF \A m \in DOMAIN h : m > n => h[m].k = "free" THEN FreeNode ELSE ReleasedNode

\* Arc::new
ArcNew(h, cell) == [h EXCEPT ![NewId(h)] = cell]

ArcCloneNoCount(h, n) == h

\* Arc::clone: one more strong reference to the same cell
ArcClone(h, n) == [h EXCEPT ![n].rc = @ + 1]

RECURSIVE ArcDrop(_, _)
\* Drop of an Arc: the cell is released with its last strong reference, and
\* releasing a cell drops the Arcs it holds (next_node, then node).
ArcDrop(h, n) ==
    IF h[n].rc > 1
    THEN [h EXCEPT ![n].rc = @ - 1]
    ELSE LET cell == h[n]
             h1 == [h EXCEPT ![n] = Reclaim(h, n)]
         IN  CASE cell.k = "kv" -> ArcDrop(h1, cell.next)
               [] cell.k = "multi" -> ArcDrop(ArcDrop(h1, cell.next), cell.node)
               [] OTHER -> h1

----------------------------------------------------------------------------
(* Serialization: KV::serialize over the chain *)

\* A serializer: the fields emitted so far, whether an emit has failed, and
\* the emit that fails (failAt = 0: no emit fails).
NewSerializer(failAt) == [out |-> <<>>, ok |-> TRUE, failAt |-> failAt]

\* Serializer::emit_*: one field, or the serializer's error
Emit(s, key) ==
    IF s.failAt = Len(s.out) + 1
    THEN [s EXCEPT !.ok = FALSE]
    ELSE [s EXCEPT !.out = Append(@, key)]

RECURSIVE PayloadSerialize(_, _)
\* KV for (T, R) and for a single pair: first component, then the rest, each
\* under try!
PayloadSerialize(kv, s) ==
    IF kv = <<>> \/ ~s.ok
    THEN s
    ELSE PayloadSerialize(Tail(kv), Emit(s, Head(kv)))

RECURSIVE NodeSerializeParentFirst(_, _, _)
NodeSerializeParentFirst(h, n, s) ==
    LET cell == h[n]
    IN  CASE cell.k = "unit" -> s
          [] cell.k = "kv" ->
                LET s1 == NodeSerializeParentFirst(h, cell.next, s)
                IN  IF ~s1.ok THEN s1 ELSE PayloadSerialize(cell.kv, s1)
          [] cell.k = "multi" ->
                LET s1 == NodeSerializeParentFirst(h, cell.next, s)
                IN  IF ~s1.ok THEN s1
                    ELSE NodeSerializeParentFirst(h, cell.node, s1)
          [] OTHER -> [s EXCEPT !.ok = FALSE, !.out = Append(@, "<dangling>")]

RECURSIVE NodeSerialize(_, _, _)
\* KV for OwnedKVListNode: own payload, then next_node;
\* KV for MultiListNode: next_node, then node; KV for (): nothing.
\* A released cell cannot be read: reading it is marked "<dangling>".
NodeSerialize(h, n, s) ==
    LET cell == h[n]
    IN  CASE cell.k = "unit" -> s
          [] cell.k = "kv" ->
                LET s1 == PayloadSerialize(cell.kv, s)
                IN  IF ~s1.ok THEN s1 ELSE NodeSerialize(h, cell.next, s1)
          [] cell.k = "multi" ->
                LET s1 == NodeSerialize(h, cell.next, s)
                IN  IF ~s1.ok THEN s1 ELSE NodeSerialize(h, cell.node, s1)
          [] OTHER -> [s EXCEPT !.ok = FALSE, !.out = Append(@, "<dangling>")]

\* KV for OwnedKVList: delegates to the head node
ListSerialize(h, list, s) == NodeSerialize(h, list, s)

\* the fields a sink reads from a context with a serializer that accepts all
Fields(h, list) == ListSerialize(h, list, NewSerializer(0)).out

----------------------------------------------------------------------------
(* Values, errors and results of Drain::log *)

Unit == [tag |-> "()"]

None == [tag |-> "None"]

Some(x) == [tag |-> "Some", a |-> x]

Pair(x, y) == [tag |-> "pair", a |-> x, b |-> y]

Ok(v) == [tag |-> "Ok", a |-> v]

Err(e) == [tag |-> "Err", a |-> e]

\* a panic unwinding out of the call: the call returns no value
Panic(e) == [tag |-> "Panic", a |-> e]

Pending == [tag |-> "pending"]

\* the error a terminal sink reports
SinkError(id) == [tag |-> "SinkError", id |-> id]

\* MutexDrainError::Mutex and MutexDrainError::Drain(e)
MutexErrMutex == [tag |-> "MutexDrainError::Mutex"]

MutexErrDrain(e) == [tag |-> "MutexDrainError::Drain", a |-> e]

\* the value of a MapErrFn applied to an error
MapErrFnApply(f, e) == [tag |-> "mapped", f |-> f, a |-> e]

IsOk(r) == r.tag = "Ok"

IsErr(r) == r.tag = "Err"

IsPanic(r) == r.tag = "Panic"

----------------------------------------------------------------------------
(* Drain values *)

SinkIds == {1, 2}

\* What each terminal sink answers on one call (the environment's choice).
SinkBehaviours == [SinkIds -> {"Ok", "Err"}]

\* A terminal sink: it serializes the context and writes. enabled says whether
\* it keeps the trait's default is_enabled or overrides it (to answer true).
Sink(id, enabled) == [t |-> "Sink", id |-> id, enabled |-> enabled]

Discard == [t |-> "Discard"]

Filter(d, f) == [t |-> "Filter", d0 |-> d, f |-> f]

LevelFilter(d, level) == [t |-> "LevelFilter", d0 |-> d, level |-> level]

MapError(d, f) == [t |-> "MapError", d0 |-> d, f |-> f]

Duplicate(d1, d2) == [t |-> "Duplicate", d0 |-> d1, d1 |-> d2]

Fuse(d) == [t |-> "Fuse", d0 |-> d]

IgnoreResult(d) == [t |-> "IgnoreResult", d0 |-> d]

\* std::sync::Mutex<D>; m names the mutex
Mutex(d, m) == [t |-> "Mutex", d0 |-> d, m |-> m]

\* Arc<D> as a Drain; id names the cell of the drain heap
ArcDrain(id) == [t |-> "Arc", id |-> id]

\* Logger<D> as a Drain
LoggerDrain(d, list) == [t |-> "Logger", d0 |-> d, list |-> list]

\* FilterFn: the predicates the model draws from
FilterFns == {"only_info"}

ApplyFilterFn(f, rec) ==
    CASE f = "only_info" -> rec.level = "Info"

\* Drain<Ok = (), Err = Never>: what Logger::root / root_typed accept
Infallible(d) == d.t \in {"Discard", "Fuse", "IgnoreResult", "Logger", "Arc"}

RECURSIVE Wraps(_)
\* the number of wrappers in a drain value
Wraps(d) ==
    CASE d.t \in {"Sink", "Discard", "Arc"} -> 0
      [] d.t = "Duplicate" -> 1 + Wraps(d.d0) + Wraps(d.d1)
      [] OTHER -> 1 + Wraps(d.d0)

RECURSIVE Mutexes(_)
\* the mutexes of a drain value
Mutexes(d) ==
    CASE d.t \in {"Sink", "Discard", "Arc"} -> {}
      [] d.t = "Duplicate" -> Mutexes(d.d0) \cup Mutexes(d.d1)
      [] d.t = "Mutex" -> {d.m} \cup Mutexes(d.d0)
      [] OTHER -> Mutexes(d.d0)

RECURSIVE Transients(_, _)
\* the number of MultiListNode cells one log call through d allocates at a time
Transients(d, da) ==
    CASE d.t \in {"Sink", "Discard"} -> 0
      [] d.t = "Arc" -> Transients(da[d.id].val, da)
      [] d.t = "Duplicate" ->
            IF Transients(d.d0, da) >= Transients(d.d1, da)
            THEN Transients(d.d0, da) ELSE Transients(d.d1, da)
      [] d.t = "Logger" -> 1 + Transients(d.d0, da)
      [] OTHER -> Transients(d.d0, da)

----------------------------------------------------------------------------
(* Drain::log.  A call runs in a call state st:                            *)
(*   heap      the chain-node heap                                         *)
(*   poisoned  the poisoned mutexes                                        *)
(*   ev        the drain calls made so far, in call order                  *)
(*   res       the result of the call that has just returned               *)
(* and in an environment env: darc (the drain heap), beh (what each sink   *)
(* answers), build.  path names the callee's place in the composition.     *)

\* the record of one Drain::log call: the callee, its arguments, what the
\* context serializes to at the call, the cells allocated at the call, the
\* callee's own list when it is a Logger, whether it wrote output, how often
\* it called the closure it owns (FilterFn, MapErrFn), and (filled at return)
\* its result
Event(path, d, rec, vals, ser, h) ==
    [ path |-> path, t |-> d.t, level |-> rec.level, ctx |-> vals,
      fields |-> ser, live |-> Allocated(h),
      own |-> IF d.t = "Logger" THEN d.list ELSE 0,
      wrote |-> FALSE, calls |-> 0, lazy |-> <<>>, res |-> Pending ]

\* a call is entered.  When the caller (the last event, still pending) was
\* given the same list, the list serializes to what it did for the caller
Enter(st, path, d, rec, vals) ==
    LET n == Len(st.ev)
        ser == IF n > 0 /\ st.ev[n].res.tag = "pending" /\ st.ev[n].ctx = vals
               THEN st.ev[n].fields
               ELSE Fields(st.heap, vals)
    IN  [st EXCEPT !.ev = Append(@, Event(path, d, rec, vals, ser, st.heap))]

\* the call entered as event idx returns r
Return(st, idx, r) == [st EXCEPT !.res = r, !.ev[idx].res = r]

RECURSIVE DrainLog(_, _, _, _, _, _)

\* the keys whose value is lazy (FnValue / PushFnValue): serializing one of
\* them invokes its closure
LazyKeys == {"a", "b"}

IsLazyKey(k) == k \in LazyKeys

\* one serialization pass over a context: the closures it invokes, in order
LazyCalls(fields) == SelectSeq(fields, IsLazyKey)

\* a terminal sink: serializes the context, writes, and reports its result
SinkLog(d, rec, vals, path, env, st) ==
    LET idx == Len(st.ev) + 1
        st0 == Enter(st, path, d, rec, vals)
        st1 == [st0 EXCEPT !.ev[idx].wrote = TRUE,
                           !.ev[idx].lazy = LazyCalls(st0.ev[idx].fields)]
    IN  Return(st1, idx,
               IF env.beh[d.id] = "Ok" THEN Ok(Unit) ELSE Err(SinkError(d.id)))

DiscardLogSerializes(d, rec, vals, path, env, st) ==
    LET idx == Len(st.ev) + 1
        st0 == Enter(st, path, d, rec, vals)
    IN  Return([st0 EXCEPT !.ev[idx].lazy = LazyCalls(st0.ev[idx].fields)],
               idx, Ok(Unit))

\* Discard::log
DiscardLog(d, rec, vals, path, env, st) ==
    LET idx == Len(st.ev) + 1
    IN  Return(Enter(st, path, d, rec, vals), idx, Ok(Unit))

FilterLogAlwaysForwards(d, rec, vals, path, env, st) ==
    LET idx == Len(st.ev) + 1
        sE == Enter(st, path, d, rec, vals)
        st0 == [sE EXCEPT !.ev[idx].calls = @ + 1]
        s1 == DrainLog(d.d0, rec, vals, path \o <<1>>, env, st0)
    IN  IF ApplyFilterFn(d.f, rec)
        THEN Return(s1, idx, IF IsOk(s1.res) THEN Ok(Some(s1.res.a)) ELSE s1.res)
        ELSE Return(s1, idx, IF IsPanic(s1.res) THEN s1.res ELSE Ok(None))

\* Filter::log: if (self.1)(record) { Ok(Some(self.0.log(..)?)) } else { Ok(None) }
FilterLog(d, rec, vals, path, env, st) ==
    LET idx == Len(st.ev) + 1
        sE == Enter(st, path, d, rec, vals)
        st0 == [sE EXCEPT !.ev[idx].calls = @ + 1]
    IN  IF ApplyFilterFn(d.f, rec)
        THEN LET s1 == DrainLog(d.d0, rec, vals, path \o <<1>>, env, st0)
             IN  Return(s1, idx,
                        IF IsOk(s1.res) THEN Ok(Some(s1.res.a)) ELSE s1.res)
        ELSE Return(st0, idx, Ok(None))

LevelFilterLogStrict(d, rec, vals, path, env, st) ==
    LET idx == Len(st.ev) + 1
        st0 == Enter(st, path, d, rec, vals)
    IN  IF LevelAsUsize(rec.level) < LevelAsUsize(d.level)
        THEN LET s1 == DrainLog(d.d0, rec, vals, path \o <<1>>, env, st0)
             IN  Return(s1, idx,
                        IF IsOk(s1.res) THEN Ok(Some(s1.res.a)) ELSE s1.res)
        ELSE Return(st0, idx, Ok(None))

\* LevelFilter::log
LevelFilterLog(d, rec, vals, path, env, st) ==
    LET idx == Len(st.ev) + 1
        st0 == Enter(st, path, d, rec, vals)
    IN  IF IsAtLeast(rec.level, d.level)
        THEN LET s1 == DrainLog(d.d0, rec, vals, path \o <<1>>, env, st0)
             IN  Return(s1, idx,
                        IF IsOk(s1.res) THEN Ok(Some(s1.res.a)) ELSE s1.res)
        ELSE Return(st0, idx, Ok(None))

MapErrorLogPassesErr(d, rec, vals, path, env, st) ==
    LET idx == Len(st.ev) + 1
        st0 == Enter(st, path, d, rec, vals)
        s1 == DrainLog(d.d0, rec, vals, path \o <<1>>, env, st0)
    IN  Return(s1, idx, s1.res)

\* MapError::log: self.drain.log(..).map_err(|e| (self.map_fn)(e))
MapErrorLog(d, rec, vals, path, env, st) ==
    LET idx == Len(st.ev) + 1
        st0 == Enter(st, path, d, rec, vals)
        s1 == DrainLog(d.d0, rec, vals, path \o <<1>>, env, st0)
    IN  IF IsErr(s1.res)
        THEN Return([s1 EXCEPT !.ev[idx].calls = @ + 1], idx,
                    Err(MapErrFnApply(d.f, s1.res.a)))
        ELSE Return(s1, idx, s1.res)

DuplicateLogShortCircuit(d, rec, vals, path, env, st) ==
    LET idx == Len(st.ev) + 1
        st0 == Enter(st, path, d, rec, vals)
        s1 == DrainLog(d.d0, rec, vals, path \o <<1>>, env, st0)
    IN  IF ~IsOk(s1.res)
        THEN Return(s1, idx, s1.res)
        ELSE LET s2 == DrainLog(d.d1, rec, vals, path \o <<2>>, env, s1)
             IN  Return(s2, idx,
                        IF IsOk(s2.res) THEN Ok(Pair(s1.res.a, s2.res.a))
                        ELSE s2.res)

\* Duplicate::log: res1, then res2, then the match; a panic of either side
\* unwinds through the call
DuplicateLog(d, rec, vals, path, env, st) ==
    LET idx == Len(st.ev) + 1
        st0 == Enter(st, path, d, rec, vals)
        s1 == DrainLog(d.d0, rec, vals, path \o <<1>>, env, st0)
    IN  IF IsPanic(s1.res)
        THEN Return(s1, idx, s1.res)
        ELSE LET s2 == DrainLog(d.d1, rec, vals, path \o <<2>>, env, s1)
             IN  Return(s2, idx,
                        IF IsPanic(s2.res) THEN s2.res
                        ELSE IF IsOk(s1.res) /\ IsOk(s2.res)
                             THEN Ok(Pair(s1.res.a, s2.res.a))
                             ELSE Err(Pair(s1.res, s2.res)))

FuseLogReturnsErr(d, rec, vals, path, env, st) ==
    LET idx == Len(st.ev) + 1
        st0 == Enter(st, path, d, rec, vals)
        s1 == DrainLog(d.d0, rec, vals, path \o <<1>>, env, st0)
    IN  Return(s1, idx, IF IsOk(s1.res) THEN Ok(Unit) ELSE s1.res)

\* Fuse::log: unwrap_or_else(|e| panic!(..)), then Ok(())
FuseLog(d, rec, vals, path, env, st) ==
    LET idx == Len(st.ev) + 1
        st0 == Enter(st, path, d, rec, vals)
        s1 == DrainLog(d.d0, rec, vals, path \o <<1>>, env, st0)
    IN  Return(s1, idx,
               IF IsOk(s1.res) THEN Ok(Unit)
               ELSE IF IsErr(s1.res) THEN Panic(s1.res.a)
               ELSE s1.res)

IgnoreResultLogPropagates(d, rec, vals, path, env, st) ==
    LET idx == Len(st.ev) + 1
        st0 == Enter(st, path, d, rec, vals)
        s1 == DrainLog(d.d0, rec, vals, path \o <<1>>, env, st0)
    IN  Return(s1, idx,
               IF IsOk(s1.res) THEN Ok(Unit)
               ELSE IF IsErr(s1.res) THEN Panic(s1.res.a)
               ELSE s1.res)

\* IgnoreResult::log: let _ = inner; Ok(())
IgnoreResultLog(d, rec, vals, path, env, st) ==
    LET idx == Len(st.ev) + 1
        st0 == Enter(st, path, d, rec, vals)
        s1 == DrainLog(d.d0, rec, vals, path \o <<1>>, env, st0)
    IN  Return(s1, idx, IF IsPanic(s1.res) THEN s1.res ELSE Ok(Unit))

\* Mutex<D>::log: lock()? (a poisoned mutex answers MutexDrainError::Mutex),
\* the inner call under the guard, map_err(MutexDrainError::Drain); a panic
\* under the guard poisons the mutex
MutexLog(d, rec, vals, path, env, st) ==
    LET idx == Len(st.ev) + 1
        st0 == Enter(st, path, d, rec, vals)
    IN  IF d.m \in st.poisoned
        THEN Return(st0, idx, Err(MutexErrMutex))
        ELSE LET s1 == DrainLog(d.d0, rec, vals, path \o <<1>>, env, st0)
             IN  IF IsPanic(s1.res)
                 THEN Return([s1 EXCEPT !.poisoned = @ \cup {d.m}], idx, s1.res)
                 ELSE Return(s1, idx,
                             IF IsErr(s1.res) THEN Err(MutexErrDrain(s1.res.a))
                             ELSE s1.res)

\* Arc<D>::log: (**self).log(record, o)
ArcLog(d, rec, vals, path, env, st) ==
    LET idx == Len(st.ev) + 1
        st0 == Enter(st, path, d, rec, vals)
        s1 == DrainLog(env.darc[d.id].val, rec, vals, path \o <<1>>, env, st0)
    IN  Return(s1, idx, s1.res)

LoggerDrainLogOwnFirst(d, rec, vals, path, env, st) ==
    LET idx == Len(st.ev) + 1
        st0 == Enter(st, path, d, rec, vals)
        h1 == ArcClone(ArcClone(st0.heap, vals), d.list)
        chained == NewId(h1)
        h2 == ArcNew(h1, MultiNode(d.list, vals))
        s1 == DrainLog(d.d0, rec, chained, path \o <<1>>, env,
                       [st0 EXCEPT !.heap = h2])
    IN  Return([s1 EXCEPT !.heap = ArcDrop(s1.heap, chained)], idx, s1.res)

LoggerDrainLogInPlace(d, rec, vals, path, env, st) ==
    LET idx == Len(st.ev) + 1
        st0 == Enter(st, path, d, rec, vals)
        h1 == IF st0.heap[vals].k = "kv"
              THEN [st0.heap EXCEPT ![vals].kv = @ \o <<"joined">>]
              ELSE st0.heap
        h2 == ArcClone(ArcClone(h1, vals), d.list)
        chained == NewId(h2)
        h3 == ArcNew(h2, MultiNode(vals, d.list))
        s1 == DrainLog(d.d0, rec, chained, path \o <<1>>, env,
                       [st0 EXCEPT !.heap = h3])
    IN  Return([s1 EXCEPT !.heap = ArcDrop(s1.heap, chained)], idx, s1.res)

\* <Logger as Drain>::log: chained = Arc::new(MultiListNode { next_node:
\* values.node.clone(), node: self.list.node.clone() }), the drain is called
\* with it, and chained is dropped when the call ends (also by a panic)
LoggerDrainLog(d, rec, vals, path, env, st) ==
    LET idx == Len(st.ev) + 1
        st0 == Enter(st, path, d, rec, vals)
        h1 == ArcClone(ArcClone(st0.heap, vals), d.list)
        chained == NewId(h1)
        h2 == ArcNew(h1, MultiNode(vals, d.list))
        s1 == DrainLog(d.d0, rec, chained, path \o <<1>>, env,
                       [st0 EXCEPT !.heap = h2])
    IN  Return([s1 EXCEPT !.heap = ArcDrop(s1.heap, chained)], idx, s1.res)

\* dynamic dispatch on the drain's type
DrainLog(d, rec, vals, path, env, st) ==
    CASE d.t = "Sink" -> SinkLog(d, rec, vals, path, env, st)
      [] d.t = "Discard" -> DiscardLog(d, rec, vals, path, env, st)
      [] d.t = "Filter" -> FilterLog(d, rec, vals, path, env, st)
      [] d.t = "LevelFilter" -> LevelFilterLog(d, rec, vals, path, env, st)
      [] d.t = "MapError" -> MapErrorLog(d, rec, vals, path, env, st)
      [] d.t = "Duplicate" -> DuplicateLog(d, rec, vals, path, env, st)
      [] d.t = "Fuse" -> FuseLog(d, rec, vals, path, env, st)
      [] d.t = "IgnoreResult" -> IgnoreResultLog(d, rec, vals, path, env, st)
      [] d.t = "Mutex" -> MutexLog(d, rec, vals, path, env, st)
      [] d.t = "Arc" -> ArcLog(d, rec, vals, path, env, st)
      [] d.t = "Logger" -> LoggerDrainLog(d, rec, vals, path, env, st)

----------------------------------------------------------------------------
(* Drain::is_enabled *)

\* the trait's default: level.as_usize() <= __slog_static_max_level().as_usize()
DefaultIsEnabled(level, b) ==
    LevelAsUsize(level) <= FilterLevelAsUsize(StaticMaxLevel(b))

RECURSIVE IsEnabled(_, _, _, _)
\* is_enabled of each drain type; p is the set of poisoned mutexes
IsEnabled(d, level, env, p) ==
    CASE d.t = "Sink" ->
            IF d.enabled = "default" THEN DefaultIsEnabled(level, env.build)
            ELSE TRUE
      [] d.t = "Discard" -> FALSE
      [] d.t = "LevelFilter" ->
            IsAtLeast(level, d.level) /\ IsEnabled(d.d0, level, env, p)
      [] d.t = "Duplicate" ->
            IsEnabled(d.d0, level, env, p) \/ IsEnabled(d.d1, level, env, p)
      [] d.t = "Mutex" ->
            IF d.m \in p THEN TRUE ELSE IsEnabled(d.d0, level, env, p)
      [] d.t = "Arc" -> IsEnabled(env.darc[d.id].val, level, env, p)
      [] OTHER -> IsEnabled(d.d0, level, env, p)

----------------------------------------------------------------------------
(* The drain heap and the Logger handles *)

DrainIds == 1..MaxDrains

FreeDrainCell == [rc |-> 0, val |-> [t |-> "none"]]

ReleasedDrainCell == [rc |-> 0, val |-> [t |-> "released"]]

\* the handles: positions in the sequence of live Logger values
Handles == DOMAIN loggers

\* s without its i-th element
Remove(s, i) == [j \in 1..(Len(s) - 1) |-> IF j < i THEN s[j] ELSE s[j + 1]]

FreeDrainIds(da) == {i \in DOMAIN da : da[i] = FreeDrainCell}

NewDrainId(da) == CHOOSE i \in FreeDrainIds(da) : \A j \in FreeDrainIds(da) : i <= j

RECURSIVE DrainArcDrop(_, _)
\* Drop of an Arc<dyn Drain>: with the last reference the drain value is
\* dropped; a Logger held as the drain drops its drain, then its list.
DrainArcDrop(s, id) ==
    IF s.darc[id].rc > 1
    THEN [s EXCEPT !.darc[id].rc = @ - 1]
    ELSE LET v == s.darc[id].val
             s1 == [s EXCEPT !.darc[id] =
                        IF \A j \in DOMAIN s.darc : j > id => s.darc[j] = FreeDrainCell
                        THEN FreeDrainCell ELSE ReleasedDrainCell]
         IN  IF v.t = "Logger"
             THEN LET s2 == DrainArcDrop(s1, v.d0.id)
                  IN  [s2 EXCEPT !.heap = ArcDrop(s2.heap, v.list)]
             ELSE s1

OwnedKVListRootSelfLoop(h, kv) == ArcNew(h, KVNode(kv, NewId(h)))

\* OwnedKVList::root: a node over a fresh terminator
OwnedKVListRoot(h, kv) ==
    LET h1 == ArcNew(h, UnitNode)
    IN  ArcNew(h1, KVNode(kv, NewId(h)))

OwnedKVListNewOnGrandparent(h, kv, next) ==
    LET nn == IF h[next].k = "kv" /\ h[h[next].next].k = "kv"
              THEN h[next].next ELSE next
    IN  ArcNew(h, KVNode(kv, nn))

\* OwnedKVList::new: one node whose next_node is the Arc it is given
OwnedKVListNew(h, kv, next) == ArcNew(h, KVNode(kv, next))

\* the environment of a drain call
Env(b, beh) == [darc |-> darc, beh |-> beh, build |-> b]

\* the call state a top-level call starts in
CallState == [heap |-> heap, poisoned |-> poisoned, ev |-> <<>>, res |-> Pending]

\* the root drains the tree is built over
RootDrains == { IgnoreResult(Sink(1, "default")) }

\* the records and sink answers the tree's log calls draw from
TreeRecords == { [level |-> "Info"] }

TreeBehaviours == { [i \in SinkIds |-> "Ok"], [i \in SinkIds |-> "Err"] }

----------------------------------------------------------------------------
(* Spec: the operations on the logger tree *)

TreeFrame == UNCHANGED <<D, poisoned, build, aborted, fused, threads, lock>>

\* Logger::root(drain, values) with a plain drain
Root(dv, kv) ==
    /\ Len(loggers) < MaxLoggers
    /\ FreeDrainIds(darc) # {}
    /\ Cardinality(FreeIds(heap)) >= 2
    /\ LET h1 == OwnedKVListRoot(heap, kv)
           head == CHOOSE n \in Allocated(h1) \ Allocated(heap) : h1[n].k = "kv"
           did == NewDrainId(darc)
       IN  /\ heap' = h1
           /\ darc' = [darc EXCEPT ![did] = [rc |-> 1, val |-> dv]]
           /\ loggers' = Append(loggers, [drain |-> did, list |-> head])
           /\ hist' = Append(hist, <<kv>>)
           /\ last' = [op |-> "root", h |-> Len(loggers) + 1, src |-> 0]
    /\ TreeFrame

\* Logger::root(src.clone(), values): a Logger is the drain of the new tree
RootOnLogger(src, kv) ==
    /\ Len(loggers) < MaxLoggers
    /\ src \in Handles
    /\ FreeDrainIds(darc) # {}
    /\ Cardinality(FreeIds(heap)) >= 2
    /\ LET l == loggers[src]
           h0 == ArcClone(heap, l.list)
           h1 == OwnedKVListRoot(h0, kv)
           head == CHOOSE n \in Allocated(h1) \ Allocated(heap) : h1[n].k = "kv"
           did == NewDrainId(darc)
       IN  /\ heap' = h1
           /\ darc' = [darc EXCEPT
                         ![l.drain].rc = @ + 1,
                         ![did] = [rc |-> 1,
                                   val |-> LoggerDrain(ArcDrain(l.drain), l.list)]]
           /\ loggers' = Append(loggers, [drain |-> did, list |-> head])
           /\ hist' = Append(hist, <<kv>>)
           /\ last' = [op |-> "root", h |-> Len(loggers) + 1, src |-> src]
    /\ TreeFrame

\* Logger::new(&self, values)
New(src, kv) ==
    /\ Len(loggers) < MaxLoggers
    /\ src \in Handles
    /\ FreeIds(heap) # {}
    /\ LET l == loggers[src]
           h0 == ArcClone(heap, l.list)
           head == NewId(h0)
       IN  /\ heap' = OwnedKVListNew(h0, kv, l.list)
           /\ darc' = [darc EXCEPT ![l.drain].rc = @ + 1]
           /\ loggers' = Append(loggers, [drain |-> l.drain, list |-> head])
           /\ hist' = Append(hist, Append(hist[src], kv))
           /\ last' = [op |-> "new", h |-> Len(loggers) + 1, src |-> src]
    /\ TreeFrame

\* Clone for Logger (derived): drain.clone() and list.clone()
Clone(src) ==
    /\ Len(loggers) < MaxLoggers
    /\ src \in Handles
    /\ LET l == loggers[src]
       IN  /\ heap' = ArcClone(heap, l.list)
           /\ darc' = [darc EXCEPT ![l.drain].rc = @ + 1]
           /\ loggers' = Append(loggers, l)
           /\ hist' = Append(hist, hist[src])
           /\ last' = [op |-> "clone", h |-> Len(loggers) + 1, src |-> src]
    /\ TreeFrame

\* Drop of a Logger handle: its drain, then its list.  The handles after it
\* move up one place.
Drop(i) ==
    /\ i \in Handles
    /\ LET l == loggers[i]
           s1 == DrainArcDrop([heap |-> heap, darc |-> darc], l.drain)
       IN  /\ heap' = ArcDrop(s1.heap, l.list)
           /\ darc' = s1.darc
           /\ loggers' = Remove(loggers, i)
           /\ hist' = Remove(hist, i)
           /\ last' = [op |-> "drop", h |-> i, src |-> 0]
    /\ TreeFrame

LoggerLogParentChain(l, rec, env, st) ==
    DrainLog(ArcDrain(l.drain), rec,
             IF st.heap[l.list].k = "kv" /\ st.heap[st.heap[l.list].next].k = "kv"
             THEN st.heap[l.list].next ELSE l.list,
             <<>>, env, st)

\* Logger::log body: self.drain.log(record, &self.list)
LoggerLog(l, rec, env, st) == DrainLog(ArcDrain(l.drain), rec, l.list, <<>>, env, st)

\* Logger::log(&self, record): let _ = <the drain's result>
Log(i, rec, beh) ==
    /\ i \in Handles
    /\ Cardinality(FreeIds(heap)) >= Transients(ArcDrain(loggers[i].drain), darc)
    /\ LET s1 == LoggerLog(loggers[i], rec, Env(build, beh), CallState)
       IN  /\ heap' = s1.heap
           /\ last' = [op |-> "log", h |-> i, src |-> 0, ev |-> s1.ev,
                       ret |-> Unit]
    /\ UNCHANGED <<darc, loggers, hist>>
    /\ TreeFrame

\* KV::serialize on Logger::list()
Serialize(i) ==
    /\ i \in Handles
    /\ LET s1 == ListSerialize(heap, loggers[i].list, NewSerializer(0))
       IN  last' = [op |-> "serialize", h |-> i, src |-> 0,
                    out |-> s1.out, ok |-> s1.ok]
    /\ UNCHANGED <<heap, darc, loggers, hist>>
    /\ TreeFrame

\* fmt::Debug for Logger / OwnedKVList: the keys of the chain, in order
DebugFmt(i) ==
    /\ i \in Handles
    /\ LET s1 == NodeSerialize(heap, loggers[i].list, NewSerializer(0))
       IN  last' = [op |-> "debug", h |-> i, src |-> 0,
                    out |-> s1.out, ok |-> s1.ok]
    /\ UNCHANGED <<heap, darc, loggers, hist>>
    /\ TreeFrame

Init ==
    /\ heap = [n \in NodeIds |-> FreeNode]
    /\ darc = [i \in DrainIds |-> FreeDrainCell]
    /\ loggers = <<>>
    /\ hist = <<>>
    /\ D = Discard
    /\ poisoned = {}
    /\ build = DefaultBuild
    /\ aborted = FALSE
    /\ fused = FALSE
    /\ last = [op |-> "init", h |-> 0, src |-> 0]
    /\ threads = <<>>
    /\ lock = 0

Next ==
    \/ \E dv \in RootDrains, kv \in Payloads : Root(dv, kv)
    \/ \E src \in Handles, kv \in Payloads : RootOnLogger(src, kv)
    \/ \E src \in Handles, kv \in Payloads : New(src, kv)
    \/ \E src \in Handles : Clone(src)
    \/ \E i \in Handles : Drop(i)
    \/ \E i \in Handles, rec \in TreeRecords, beh \in TreeBehaviours : Log(i, rec, beh)
    \/ \E i \in Handles : Serialize(i)
    \/ \E i \in Handles : DebugFmt(i)

Spec == Init /\ [][Next]_vars

----------------------------------------------------------------------------
(* SpecDrain: a drain is composed with the Drain combinators, then used *)

\* the terminal drains a composition starts from
Terminals == { Sink(1, "default"), Sink(2, "override"), Discard }

\* LevelFilter thresholds the model draws from
Thresholds == { "Warning" }

\* the levels client calls draw from: above the threshold, the threshold,
\* the release cap, the debug cap, and below every cap
CallLevels == Levels \ { "Error" }

\* the context the caller passes to Drain::log: a root list {a}
CallerHeap == OwnedKVListRoot([n \in NodeIds |-> FreeNode], <<"a">>)

CallerList == CHOOSE n \in Allocated(CallerHeap) : CallerHeap[n].k = "kv"

\* a drain may be wrapped until it is first used
Building == ~aborted /\ last.op \in {"init", "build"} /\ Wraps(D) < MaxWrap

DrainFrame == UNCHANGED <<darc, loggers, hist, build, threads, lock>>

BuildStep(d) ==
    /\ D' = d
    /\ last' = [op |-> "build"]
    /\ UNCHANGED <<heap, poisoned, aborted, fused>>
    /\ DrainFrame

\* Drain::filter
BuildFilter(f) == Building /\ BuildStep(Filter(D, f))

\* Drain::filter_level
BuildLevelFilter(level) == Building /\ BuildStep(LevelFilter(D, level))

\* Drain::map_err
BuildMapErr == Building /\ BuildStep(MapError(D, "f"))

\* Drain::ignore_res
BuildIgnoreRes == Building /\ BuildStep(IgnoreResult(D))

\* Drain::fuse
BuildFuse == Building /\ BuildStep(Fuse(D))

\* the drain Duplicate::new pairs D with
SideDrains == { Sink(2, "override") }

\* Duplicate::new with D on either side
BuildDuplicate(side, first) ==
    Building /\ BuildStep(IF first THEN Duplicate(side, D) ELSE Duplicate(D, side))

\* std::sync::Mutex::new
BuildMutex == Building /\ BuildStep(Mutex(D, Cardinality(Mutexes(D)) + 1))

\* Logger::root_typed(drain, values): the Logger keeps the drain by value
BuildLogger(kv) ==
    /\ Building
    /\ Infallible(D)
    /\ Cardinality(FreeIds(heap)) >= 3
    /\ LET h1 == OwnedKVListRoot(heap, kv)
           head == CHOOSE n \in Allocated(h1) \ Allocated(heap) : h1[n].k = "kv"
       IN  /\ heap' = h1
           /\ D' = LoggerDrain(D, head)
    /\ last' = [op |-> "build"]
    /\ UNCHANGED <<poisoned, aborted, fused>>
    /\ DrainFrame

RECURSIVE SinksOf(_)
\* the terminal sinks a drain value reaches
SinksOf(d) ==
    CASE d.t = "Sink" -> {d.id}
      [] d.t \in {"Discard", "Arc"} -> {}
      [] d.t = "Duplicate" -> SinksOf(d.d0) \cup SinksOf(d.d1)
      [] OTHER -> SinksOf(d.d0)

\* the answers of the sinks a call can reach (the others are left at "Ok")
BehavioursOf(d) == { beh \in SinkBehaviours : \A i \in SinkIds \ SinksOf(d) : beh[i] = "Ok" }

\* Drain::log(&D, record, values) by client code.  A panic leaves the call
\* without a value: the process dies (panic = abort, or nobody catches it) or
\* the thread unwinds and the rest of the program goes on.
DLog(rec, beh) ==
    /\ ~aborted
    /\ Cardinality(FreeIds(heap)) >= Transients(D, darc)
    /\ LET env == Env(build, beh)
           s1 == DrainLog(D, rec, CallerList, <<>>, env, CallState)
       IN  /\ heap' = s1.heap
           /\ poisoned' = s1.poisoned
           /\ aborted' \in (IF IsPanic(s1.res) THEN BOOLEAN ELSE {FALSE})
           /\ fused' = (fused \/ \E k \in DOMAIN s1.ev :
                                    s1.ev[k].t = "Fuse" /\ IsPanic(s1.ev[k].res))
           /\ last' = [op |-> "log", level |-> rec.level, ev |-> s1.ev,
                       res |-> s1.res,
                       en |-> IsEnabled(D, rec.level, env, poisoned),
                       was |-> [fused |-> fused, poisoned |-> poisoned]]
    /\ UNCHANGED D
    /\ DrainFrame

\* Drain::is_enabled(&D, level) by client code
DIsEnabled(level) ==
    /\ ~aborted
    /\ last' = [op |-> "is_enabled", level |-> level,
                ret |-> IsEnabled(D, level, Env(build, [i \in SinkIds |-> "Ok"]),
                                  poisoned)]
    /\ UNCHANGED <<D, heap, poisoned, aborted, fused>>
    /\ DrainFrame

InitDrain ==
    /\ heap = CallerHeap
    /\ darc = [i \in DrainIds |-> FreeDrainCell]
    /\ loggers = <<>>
    /\ hist = <<>>
    /\ D \in Terminals
    /\ poisoned = {}
    /\ build \in { b \in Builds : b.features = {} }
    /\ aborted = FALSE
    /\ fused = FALSE
    /\ last = [op |-> "init"]
    /\ threads = <<>>
    /\ lock = 0

NextDrain ==
    \/ \E f \in FilterFns : BuildFilter(f)
    \/ \E level \in Thresholds : BuildLevelFilter(level)
    \/ BuildMapErr
    \/ BuildIgnoreRes
    \/ BuildFuse
    \/ \E side \in SideDrains, first \in BOOLEAN : BuildDuplicate(side, first)
    \/ BuildMutex
    \/ \E kv \in {<<"b", "c">>} : BuildLogger(kv)
    \/ \E level \in CallLevels, beh \in BehavioursOf(D) : DLog([level |-> level], beh)
    \/ \E level \in CallLevels : DIsEnabled(level)

SpecDrain == InitDrain /\ [][NextDrain]_vars

----------------------------------------------------------------------------
(* SpecMutex: threads call log and is_enabled on one std::sync::Mutex<D>.   *)
(* A call is three steps: lock() (blocks while another thread holds the    *)
(* guard), the call on the inner drain under the guard, and the end of the *)
(* call, where the guard is dropped.                                       *)

ThreadIds == 1..MaxThreads

\* the Mutex-wrapped drains the threads share
MutexDrains ==
    { Mutex(Sink(1, "default"), 1), Mutex(Fuse(Sink(1, "default")), 1) }

\* the levels the threads' calls draw from
MutexLevels == { "Info", "Trace" }

IdleThread == [pc |-> "idle"]

\* a thread that panicked has unwound and ended
DeadThread == [pc |-> "dead"]

LockAlwaysFree(l) == TRUE

\* std::sync::Mutex::lock returns when no other guard exists
LockFree(l) == l = 0

AfterLockIgnoresPoison(isPoisoned) == "inside"

\* Mutex::log: let d = self.lock()?; (is_enabled: self.lock().ok().map_or(true, ..))
\* a PoisonError ends the call before the inner drain is touched
AfterLock(isPoisoned) == IF isPoisoned THEN "bail" ELSE "inside"

\* MutexGuard::drop: a guard dropped while its thread panics poisons the mutex
GuardDrop(p, m, panicking) == IF panicking THEN p \cup {m} ELSE p

\* what Mutex::log returns: From<PoisonError> gives MutexDrainError::Mutex,
\* map_err(MutexDrainError::Drain) wraps the inner error
MutexLogResult(th) ==
    IF th.pc = "bail" THEN Err(MutexErrMutex)
    ELSE IF IsErr(th.inner) THEN Err(MutexErrDrain(th.inner.a))
    ELSE th.inner

\* what Mutex::is_enabled returns: map_or(true, |lock| lock.is_enabled(level))
MutexIsEnabledResult(th) == IF th.pc = "bail" THEN TRUE ELSE th.inner

MutexFrame == UNCHANGED <<darc, loggers, hist, D, build>>

\* a thread starts Drain::log or Drain::is_enabled on the shared Mutex
MCall(t, op, level, beh) ==
    /\ ~aborted
    /\ threads[t].pc = "idle"
    /\ threads' = [threads EXCEPT ![t] =
                       [pc |-> "lock", op |-> op, level |-> level, beh |-> beh,
                        was |-> D.m \in poisoned]]
    /\ UNCHANGED <<heap, poisoned, aborted, fused, last, lock>>
    /\ MutexFrame

\* self.lock() returns to the thread
MLock(t) ==
    /\ ~aborted
    /\ threads[t].pc = "lock"
    /\ LockFree(lock)
    /\ lock' = t
    /\ threads' = [threads EXCEPT ![t] =
                       [@ EXCEPT !.pc = AfterLock(D.m \in poisoned)]
                       @@ [seen |-> D.m \in poisoned]]
    /\ UNCHANGED <<heap, poisoned, aborted, fused, last>>
    /\ MutexFrame

\* the call on the inner drain, made through the guard
MInner(t) ==
    /\ ~aborted
    /\ threads[t].pc = "inside"
    /\ LET th == threads[t]
           env == Env(build, th.beh)
           s1 == DrainLog(D.d0, [level |-> th.level], CallerList, <<1>>, env,
                          CallState)
       IN  IF th.op = "log"
           THEN /\ heap' = s1.heap
                /\ threads' = [threads EXCEPT ![t] =
                                   [@ EXCEPT !.pc = "leave"]
                                   @@ [inner |-> s1.res, ev |-> s1.ev]]
           ELSE /\ heap' = heap
                /\ threads' = [threads EXCEPT ![t] =
                                   [@ EXCEPT !.pc = "leave"]
                                   @@ [inner |-> IsEnabled(D.d0, th.level, env, poisoned),
                                       ev |-> <<>>]]
    /\ UNCHANGED <<poisoned, aborted, fused, last, lock>>
    /\ MutexFrame

\* the call ends: the guard is dropped and the result goes to the caller, or
\* the panic of the inner drain unwinds the thread
MUnlock(t) ==
    /\ ~aborted
    /\ threads[t].pc \in {"leave", "bail"}
    /\ LET th == threads[t]
           panicking == th.pc = "leave" /\ th.op = "log" /\ IsPanic(th.inner)
       IN  /\ lock' = IF lock = t THEN 0 ELSE lock
           /\ poisoned' = GuardDrop(poisoned, D.m, panicking)
           /\ fused' = (fused \/ panicking)
           /\ aborted' \in (IF panicking THEN BOOLEAN ELSE {FALSE})
           /\ threads' = [threads EXCEPT ![t] =
                              IF panicking THEN DeadThread ELSE IdleThread]
           /\ last' = [op |-> IF th.op = "log" THEN "mutex_log" ELSE "mutex_is_enabled",
                       t |-> t, level |-> th.level, was |-> th.was, seen |-> th.seen,
                       called |-> th.pc = "leave",
                       inner |-> IF th.pc = "leave" THEN th.inner ELSE Pending,
                       res |-> IF th.op = "log" THEN MutexLogResult(th)
                               ELSE MutexIsEnabledResult(th),
                       now |-> D.m \in poisoned']
    /\ UNCHANGED heap
    /\ MutexFrame

InitMutex ==
    /\ heap = CallerHeap
    /\ darc = [i \in DrainIds |-> FreeDrainCell]
    /\ loggers = <<>>
    /\ hist = <<>>
    /\ D \in MutexDrains
    /\ poisoned = {}
    /\ build = DefaultBuild
    /\ aborted = FALSE
    /\ fused = FALSE
    /\ last = [op |-> "init"]
    /\ threads = [t \in ThreadIds |-> IdleThread]
    /\ lock = 0

NextMutex ==
    \/ \E t \in ThreadIds, op \in {"log", "is_enabled"}, level \in MutexLevels,
          beh \in BehavioursOf(D) : MCall(t, op, level, beh)
    \/ \E t \in ThreadIds : MLock(t)
    \/ \E t \in ThreadIds : MInner(t)
    \/ \E t \in ThreadIds : MUnlock(t)

SpecMutex == InitMutex /\ [][NextMutex]_vars

----------------------------------------------------------------------------
(* SpecNested: threads call log and is_enabled on one std::sync::Mutex<D>, *)
(* and the work done under the guard (the inner drain, or the closure of a *)
(* lazy value it serializes) may itself call log or is_enabled on a Logger *)
(* over the same Mutex.  std::sync::Mutex is not reentrant: lock() on the   *)
(* thread that holds the guard never returns; it blocks for ever or panics, *)
(* which of the two is left to the platform.                               *)

\* the calls a thread makes on the Mutex
MutexOps == {"log", "is_enabled"}

\* what lock() does on the thread that already holds the guard
RelockOutcomes == {"block", "panic"}

\* a thread with no call in progress
NestedIdle == [pc |-> "idle", op |-> "none", nested |-> "none"]

NestedFrame == UNCHANGED <<heap, darc, loggers, hist, D, build, fused>>

\* a thread starts Drain::log or Drain::is_enabled on the shared Mutex
NCall(t, op) ==
    /\ ~aborted
    /\ threads[t].pc = "idle"
    /\ threads' = [threads EXCEPT ![t] = [pc |-> "lock", op |-> op, nested |-> "none"]]
    /\ UNCHANGED <<poisoned, aborted, last, lock>>
    /\ NestedFrame

\* self.lock() returns to the thread: with the guard, or with a PoisonError
NLock(t) ==
    /\ ~aborted
    /\ threads[t].pc = "lock"
    /\ LockFree(lock)
    /\ lock' = t
    /\ threads' = [threads EXCEPT ![t].pc = AfterLock(D.m \in poisoned)]
    /\ UNCHANGED <<poisoned, aborted, last>>
    /\ NestedFrame

\* the inner drain's call returns without logging again
NInner(t) ==
    /\ ~aborted
    /\ threads[t].pc = "inside"
    /\ threads' = [threads EXCEPT ![t].pc = "leave"]
    /\ UNCHANGED <<poisoned, aborted, last, lock>>
    /\ NestedFrame

\* under the guard, the inner drain or a lazy value calls log or is_enabled on
\* a Logger over the same Mutex: self.lock() on the thread holding the guard
NNested(t, op, outcome) ==
    /\ ~aborted
    /\ threads[t].pc = "inside"
    /\ threads' = [threads EXCEPT
                       ![t].pc = IF outcome = "block" THEN "blocked" ELSE "panicking",
                       ![t].nested = op]
    /\ UNCHANGED <<poisoned, aborted, last, lock>>
    /\ NestedFrame

\* the panic of the nested lock() unwinds the thread: its guard is dropped
\* while panicking, which poisons the mutex
NUnwind(t) ==
    /\ ~aborted
    /\ threads[t].pc = "panicking"
    /\ lock' = 0
    /\ poisoned' = GuardDrop(poisoned, D.m, TRUE)
    /\ aborted' \in BOOLEAN
    /\ threads' = [threads EXCEPT ![t].pc = "dead"]
    /\ last' = [op |-> "nested_panic", t |-> t, call |-> threads[t].op,
                nested |-> threads[t].nested]
    /\ NestedFrame

\* the call ends: the guard is dropped and the result goes to the caller
NUnlock(t) ==
    /\ ~aborted
    /\ threads[t].pc \in {"leave", "bail"}
    /\ lock' = 0
    /\ poisoned' = GuardDrop(poisoned, D.m, FALSE)
    /\ threads' = [threads EXCEPT ![t] = NestedIdle]
    /\ last' = [op |-> "nested_return", t |-> t, call |-> threads[t].op,
                called |-> threads[t].pc = "leave"]
    /\ UNCHANGED aborted
    /\ NestedFrame

InitNested ==
    /\ heap = CallerHeap
    /\ darc = [i \in DrainIds |-> FreeDrainCell]
    /\ loggers = <<>>
    /\ hist = <<>>
    /\ D = Mutex(Sink(1, "default"), 1)
    /\ poisoned = {}
    /\ build = DefaultBuild
    /\ aborted = FALSE
    /\ fused = FALSE
    /\ last = [op |-> "init"]
    /\ threads = [t \in ThreadIds |-> NestedIdle]
    /\ lock = 0

NextNested ==
    \/ \E t \in ThreadIds, op \in MutexOps : NCall(t, op)
    \/ \E t \in ThreadIds : NLock(t)
    \/ \E t \in ThreadIds : NInner(t)
    \/ \E t \in ThreadIds, op \in MutexOps, outcome \in RelockOutcomes :
          NNested(t, op, outcome)
    \/ \E t \in ThreadIds : NUnwind(t)
    \/ \E t \in ThreadIds : NUnlock(t)

SpecNested == InitNested /\ [][NextNested]_vars

----------------------------------------------------------------------------
(* SpecThreads: threads share one root Logger.  Thread 0 owns the root and *)
(* drops it at some moment; every other thread owns a clone of the root    *)
(* and runs: child = base.new(o!(its key)); log through child; drop base;  *)
(* copy = child.clone(); drop child; log through copy; drop copy.  A step  *)
(* is one atomic operation on a reference count (Arc::clone, Arc::new, the *)
(* decrement of Arc::drop) or the serialization of one chain node.         *)

Workers == 1..MaxThreads

\* the key each thread adds to its child logger
ThreadKeys == <<"t1", "t2", "t3", "t4">>

NoHandle == [drain |-> 0, list |-> 0]

\* the drain the shared root is built over
SharedDrain == IgnoreResult(Sink(1, "default"))

\* what a thread does after the step at pc: the handle it works on and the
\* pc it goes on with
Plan(pc) ==
    CASE pc = "drop_root" -> [h |-> "base", after |-> "done"]
      [] pc = "log_child" -> [h |-> "child", after |-> "drop_base"]
      [] pc = "drop_base" -> [h |-> "base", after |-> "clone1"]
      [] pc = "drop_child" -> [h |-> "child", after |-> "log_copy"]
      [] pc = "log_copy" -> [h |-> "copy", after |-> "drop_copy"]
      [] pc = "drop_copy" -> [h |-> "copy", after |-> "done"]

NewThread(pc, base) ==
    [ pc |-> pc, after |-> "done",
      hs |-> [w \in {"base", "child", "copy"} |-> IF w = "base" THEN base ELSE NoHandle],
      cur |-> 0, tmp |-> 0, s |-> NewSerializer(0) ]

ArcDropStepEarlyFree(h, n) ==
    IF h[n].rc > 2 THEN [h EXCEPT ![n].rc = @ - 1] ELSE [h EXCEPT ![n] = Reclaim(h, n)]

\* one decrement of Arc::drop: the cell is given back with its last reference
ArcDropStep(h, n) ==
    IF h[n].rc > 1 THEN [h EXCEPT ![n].rc = @ - 1] ELSE [h EXCEPT ![n] = Reclaim(h, n)]

ThreadFrame == UNCHANGED <<loggers, hist, D, poisoned, build, aborted, fused, lock>>

\* Logger::new, first field: self.drain.clone()
TNewCloneDrain(t) ==
    /\ threads[t].pc = "start"
    /\ darc' = [darc EXCEPT ![threads[t].hs["base"].drain].rc = @ + 1]
    /\ threads' = [threads EXCEPT ![t].pc = "new2"]
    /\ UNCHANGED <<heap, last>>
    /\ ThreadFrame

\* Logger::new, argument of OwnedKVList::new: self.list.node.clone()
TNewCloneList(t) ==
    /\ threads[t].pc = "new2"
    /\ heap' = ArcClone(heap, threads[t].hs["base"].list)
    /\ threads' = [threads EXCEPT ![t].pc = "new3",
                                  ![t].tmp = threads[t].hs["base"].list]
    /\ UNCHANGED <<darc, last>>
    /\ ThreadFrame

\* Logger::new, OwnedKVList::new: Arc::new(OwnedKVListNode { next_node, kv })
TNewAlloc(t) ==
    /\ threads[t].pc = "new3"
    /\ FreeIds(heap) # {}
    /\ heap' = OwnedKVListNew(heap, <<ThreadKeys[t]>>, threads[t].tmp)
    /\ threads' = [threads EXCEPT
                       ![t].pc = "log_child",
                       ![t].tmp = 0,
                       ![t].hs["child"] =
                           [drain |-> threads[t].hs["base"].drain, list |-> NewId(heap)]]
    /\ UNCHANGED <<darc, last>>
    /\ ThreadFrame

\* Logger::log: self.drain.log(record, &self.list) reaches the sink, which
\* starts to serialize the list
TLogEnter(t) ==
    /\ threads[t].pc \in {"log_child", "log_copy"}
    /\ LET pl == Plan(threads[t].pc)
       IN  threads' = [threads EXCEPT
                           ![t].pc = "ser",
                           ![t].after = pl.after,
                           ![t].cur = threads[t].hs[pl.h].list,
                           ![t].tmp = threads[t].hs[pl.h].drain,
                           ![t].s = NewSerializer(0)]
    /\ UNCHANGED <<heap, darc, last>>
    /\ ThreadFrame

TSerStepTakesPayload(t) ==
    /\ threads[t].pc = "ser"
    /\ LET th == threads[t]
           cell == heap[th.cur]
       IN  IF cell.k = "kv" /\ th.s.ok
           THEN /\ threads' = [threads EXCEPT
                                   ![t].s = PayloadSerialize(cell.kv, th.s),
                                   ![t].cur = cell.next]
                /\ heap' = [heap EXCEPT ![th.cur].kv = <<>>]
                /\ last' = last
           ELSE /\ threads' = [threads EXCEPT ![t].pc = th.after, ![t].cur = 0,
                                              ![t].tmp = 0]
                /\ heap' = heap
                /\ last' = [op |-> "thread_log", t |-> t,
                            out |-> IF cell.k = "unit" THEN th.s.out
                                    ELSE Append(th.s.out, "<dangling>"),
                            drain |-> darc[th.tmp]]
    /\ UNCHANGED darc
    /\ ThreadFrame

\* KV::serialize of one node of the chain: its payload, then on to next_node;
\* the terminator ends the call
TSerStep(t) ==
    /\ threads[t].pc = "ser"
    /\ LET th == threads[t]
           cell == heap[th.cur]
       IN  IF cell.k = "kv" /\ th.s.ok
           THEN /\ threads' = [threads EXCEPT
                                   ![t].s = PayloadSerialize(cell.kv, th.s),
                                   ![t].cur = cell.next]
                /\ last' = last
           ELSE /\ threads' = [threads EXCEPT ![t].pc = th.after, ![t].cur = 0,
                                              ![t].tmp = 0]
                /\ last' = [op |-> "thread_log", t |-> t,
                            out |-> IF cell.k = "unit" THEN th.s.out
                                    ELSE Append(th.s.out, "<dangling>"),
                            drain |-> darc[th.tmp]]
    /\ UNCHANGED <<heap, darc>>
    /\ ThreadFrame

\* drop of a Logger, first field: the Arc of the drain
TDropDrain(t) ==
    /\ threads[t].pc \in {"drop_root", "drop_base", "drop_child", "drop_copy"}
    /\ LET pl == Plan(threads[t].pc)
           hd == threads[t].hs[pl.h]
       IN  /\ darc' = DrainArcDrop([heap |-> heap, darc |-> darc], hd.drain).darc
           /\ threads' = [threads EXCEPT
                              ![t].pc = "dropping",
                              ![t].after = pl.after,
                              ![t].cur = hd.list,
                              ![t].hs[pl.h] = NoHandle]
    /\ UNCHANGED <<heap, last>>
    /\ ThreadFrame

\* drop of a Logger, second field: the Arc of the list's head; a cell that
\* is given back drops its next_node in turn
TDropStep(t) ==
    /\ threads[t].pc = "dropping"
    /\ LET th == threads[t]
           cell == heap[th.cur]
           h1 == ArcDropStep(heap, th.cur)
       IN  /\ heap' = h1
           /\ threads' =
                  IF h1[th.cur].k \in {"free", "released"} /\ cell.k = "kv"
                  THEN [threads EXCEPT ![t].cur = cell.next]
                  ELSE [threads EXCEPT ![t].pc = th.after, ![t].cur = 0]
    /\ UNCHANGED <<darc, last>>
    /\ ThreadFrame

\* Clone for Logger, first field: drain.clone()
TCloneDrain(t) ==
    /\ threads[t].pc = "clone1"
    /\ darc' = [darc EXCEPT ![threads[t].hs["child"].drain].rc = @ + 1]
    /\ threads' = [threads EXCEPT ![t].pc = "clone2"]
    /\ UNCHANGED <<heap, last>>
    /\ ThreadFrame

\* Clone for Logger, second field: list.clone()
TCloneList(t) ==
    /\ threads[t].pc = "clone2"
    /\ heap' = ArcClone(heap, threads[t].hs["child"].list)
    /\ threads' = [threads EXCEPT ![t].pc = "drop_child",
                                  ![t].hs["copy"] = threads[t].hs["child"]]
    /\ UNCHANGED <<darc, last>>
    /\ ThreadFrame

\* the root is built and every worker has been given a clone of it
InitThreads ==
    /\ heap = [CallerHeap EXCEPT ![CallerList].rc = 1 + MaxThreads]
    /\ darc = [i \in DrainIds |->
                   IF i = 1 THEN [rc |-> 1 + MaxThreads, val |-> SharedDrain]
                   ELSE FreeDrainCell]
    /\ loggers = <<>>
    /\ hist = <<>>
    /\ D = Discard
    /\ poisoned = {}
    /\ build = DefaultBuild
    /\ aborted = FALSE
    /\ fused = FALSE
    /\ last = [op |-> "init"]
    /\ threads = [t \in 0..MaxThreads |->
                      NewThread(IF t = 0 THEN "drop_root" ELSE "start",
                                [drain |-> 1, list |-> CallerList])]
    /\ lock = 0

NextThreads ==
    \/ \E t \in Workers : TNewCloneDrain(t)
    \/ \E t \in Workers : TNewCloneList(t)
    \/ \E t \in Workers : TNewAlloc(t)
    \/ \E t \in Workers : TLogEnter(t)
    \/ \E t \in Workers : TSerStep(t)
    \/ \E t \in 0..MaxThreads : TDropDrain(t)
    \/ \E t \in 0..MaxThreads : TDropStep(t)
    \/ \E t \in Workers : TCloneDrain(t)
    \/ \E t \in Workers : TCloneList(t)

SpecThreads == InitThreads /\ [][NextThreads]_vars

----------------------------------------------------------------------------
(* SpecLevel: the pure functions of Level and FilterLevel, applied to      *)
(* inputs drawn from bounded sets.  A string is the sequence of its bytes. *)

\* LOG_LEVEL_NAMES, in order of as_usize()
LOG_LEVEL_NAMES ==
    << <<79, 70, 70>>,    \* OFF
       <<67, 82, 73, 84, 73, 67, 65, 76>>,    \* CRITICAL
       <<69, 82, 82, 79, 82>>,    \* ERROR
       <<87, 65, 82, 78>>,    \* WARN
       <<73, 78, 70, 79>>,    \* INFO
       <<68, 69, 66, 85, 71>>,    \* DEBUG
       <<84, 82, 65, 67, 69>> >> \* TRACE

\* LOG_LEVEL_SHORT_NAMES, in order of as_usize()
LOG_LEVEL_SHORT_NAMES ==
    << <<79, 70, 70>>,    \* OFF
       <<67, 82, 73, 84>>,    \* CRIT
       <<69, 82, 82, 79>>,    \* ERRO
       <<87, 65, 82, 78>>,    \* WARN
       <<73, 78, 70, 79>>,    \* INFO
       <<68, 69, 66, 71>>,    \* DEBG
       <<84, 82, 67, 69>> >> \* TRCE

\* ASCII_LOWERCASE_MAP: 'A'..'Z' go to 'a'..'z', every other byte to itself
ASCII_LOWERCASE_MAP(byte) == IF byte \in 65..90 THEN byte + 32 ELSE byte

\* Level::from_usize
LevelFromUsize(u) ==
    CASE u = 1 -> Some("Critical")
      [] u = 2 -> Some("Error")
      [] u = 3 -> Some("Warning")
      [] u = 4 -> Some("Info")
      [] u = 5 -> Some("Debug")
      [] u = 6 -> Some("Trace")
      [] OTHER -> None

\* FilterLevel::from_usize
FilterLevelFromUsize(u) ==
    CASE u = 0 -> Some("Off")
      [] u = 1 -> Some("Critical")
      [] u = 2 -> Some("Error")
      [] u = 3 -> Some("Warning")
      [] u = 4 -> Some("Info")
      [] u = 5 -> Some("Debug")
      [] u = 6 -> Some("Trace")
      [] OTHER -> None

\* Level::as_str and Level::as_short_str: the tables indexed by as_usize()
\* (the tables are 0-based in the source, sequences are 1-based here)
AsStr(l) == LOG_LEVEL_NAMES[LevelAsUsize(l) + 1]

AsShortStr(l) == LOG_LEVEL_SHORT_NAMES[LevelAsUsize(l) + 1]

\* fmt::Display for Level: write!(f, "{}", self.as_short_str())
DisplayLevel(l) == AsShortStr(l)

\* name.as_bytes().iter().zip(level.as_bytes().iter()).all(..): zip stops at
\* the shorter of the two, so only the common prefix is compared
ZipAllEqual(name, level) ==
    \A i \in 1..(IF Len(name) <= Len(level) THEN Len(name) ELSE Len(level)) :
        ASCII_LOWERCASE_MAP(name[i]) = ASCII_LOWERCASE_MAP(level[i])

\* LOG_LEVEL_NAMES.iter().position(..): the 0-based index of the first match
NamePosition(level) ==
    LET hits == { p \in DOMAIN LOG_LEVEL_NAMES : ZipAllEqual(LOG_LEVEL_NAMES[p], level) }
    IN  IF hits = {} THEN None
        ELSE Some((CHOOSE p \in hits : \A q \in hits : p <= q) - 1)

\* Option::unwrap of from_usize's answer inside .map(..)
Unwrap(o) == IF o = None THEN Panic("unwrap on None") ELSE Ok(o.a)

\* <Level as FromStr>::from_str: position(..).map(|p| Level::from_usize(p).unwrap()).ok_or(())
LevelFromStr(level) ==
    LET pos == NamePosition(level)
    IN  IF pos = None THEN Err(Unit) ELSE Unwrap(LevelFromUsize(pos.a))

\* <FilterLevel as FromStr>::from_str
FilterLevelFromStr(level) ==
    LET pos == NamePosition(level)
    IN  IF pos = None THEN Err(Unit) ELSE Unwrap(FilterLevelFromUsize(pos.a))

\* the spellings of a name in every mix of ASCII upper and lower case
CaseMixes(name) ==
    { [i \in 1..Len(name) |->
          IF i \in U THEN name[i] ELSE ASCII_LOWERCASE_MAP(name[i])] :
      U \in SUBSET (1..Len(name)) }

Range(f) == { f[i] : i \in DOMAIN f }

\* the prefixes of a string, the empty one and the string itself included
Prefixes(str) == { SubSeq(str, 1, n) : n \in 0..Len(str) }

\* the texts given to from_str: the long and short names in every case, the
\* prefixes of the upper-case names, and the upper-case names with one more
\* byte ('X', ' ')
ParseInputs ==
    UNION { CaseMixes(n) : n \in Range(LOG_LEVEL_NAMES) \cup Range(LOG_LEVEL_SHORT_NAMES) }
    \cup UNION { Prefixes(n) : n \in Range(LOG_LEVEL_NAMES) \cup Range(LOG_LEVEL_SHORT_NAMES) }
    \cup { Append(n, x) : n \in Range(LOG_LEVEL_NAMES), x \in {88, 32} }
    \cup { <<73>> \o LOG_LEVEL_NAMES[5] }

LevelFrame ==
    UNCHANGED <<heap, darc, loggers, hist, D, poisoned, build, aborted, fused,
                threads, lock>>

\* str::parse::<Level>() and str::parse::<FilterLevel>() on the same text
ParseCall(str) ==
    /\ last' = [op |-> "parse", str |-> str,
                level |-> LevelFromStr(str), filter |-> FilterLevelFromStr(str)]
    /\ LevelFrame

\* l1.is_at_least(l2)
IsAtLeastCall(l1, l2) ==
    /\ last' = [op |-> "is_at_least", l1 |-> l1, l2 |-> l2, ret |-> IsAtLeast(l1, l2)]
    /\ LevelFrame

\* l.as_usize() of Level l, of the FilterLevel of the same name, and of
\* FilterLevel::Off
AsUsizeCall(l) ==
    /\ last' = [op |-> "as_usize", l |-> l, level |-> LevelAsUsize(l),
                filter |-> FilterLevelAsUsize(l), off |-> FilterLevelAsUsize("Off")]
    /\ LevelFrame

\* format!("{}", l), l.as_str(), l.as_short_str()
FormatCall(l) ==
    /\ last' = [op |-> "format", l |-> l, text |-> DisplayLevel(l),
                long |-> AsStr(l), short |-> AsShortStr(l)]
    /\ LevelFrame

InitLevel ==
    /\ heap = [n \in NodeIds |-> FreeNode]
    /\ darc = [i \in DrainIds |-> FreeDrainCell]
    /\ loggers = <<>>
    /\ hist = <<>>
    /\ D = Discard
    /\ poisoned = {}
    /\ build = DefaultBuild
    /\ aborted = FALSE
    /\ fused = FALSE
    /\ last = [op |-> "init"]
    /\ threads = <<>>
    /\ lock = 0

NextLevel ==
    \/ \E str \in ParseInputs : ParseCall(str)
    \/ \E l1, l2 \in Levels : IsAtLeastCall(l1, l2)
    \/ \E l \in Levels : AsUsizeCall(l)
    \/ \E l \in Levels : FormatCall(l)

SpecLevel == InitLevel /\ [][NextLevel]_vars

----------------------------------------------------------------------------
(* SpecMacro: the log! macro and its level-named forms on a root Logger,   *)
(* in every build the cargo features can select.                           *)

\* the cargo features __slog_static_max_level reads
MaxLevelFeatures ==
    { "max_level_off", "max_level_error", "max_level_warn", "max_level_info",
      "max_level_debug", "max_level_trace",
      "release_max_level_off", "release_max_level_error",
      "release_max_level_warn", "release_max_level_info",
      "release_max_level_debug", "release_max_level_trace" }

\* the most features one build selects (cargo features are additive, so a
\* dependency graph can select several)
MaxFeatures == 2

\* debug and release builds with up to MaxFeatures of the features
MacroBuilds ==
    { [debug_assertions |-> dbg, features |-> fs] :
        dbg \in BOOLEAN,
        fs \in { f \in SUBSET MaxLevelFeatures : Cardinality(f) <= MaxFeatures } }

\* the level each level-named macro passes to log!
MacroLevel ==
    [ crit |-> "Critical", error |-> "Error", warn |-> "Warning",
      info |-> "Info", debug |-> "Debug", trace |-> "Trace" ]

\* the drain of the root Logger the macros log to
MacroDrain == Sink(1, "override")

LogMacroGuardNoCap(level, b) == TRUE

\* the condition of log!: $lvl.as_usize() <= __slog_static_max_level().as_usize()
LogMacroGuard(level, b) ==
    LevelAsUsize(level) <= FilterLevelAsUsize(StaticMaxLevel(b))

\* log!($l, $lvl, $tag, ..): under the condition, the record is built and
\* $l.log(&record) is called; otherwise the statement does nothing
LogMacro(l, level, env, st) ==
    IF LogMacroGuard(level, env.build)
    THEN [called |-> TRUE, st |-> LoggerLog(l, [level |-> level], env, st)]
    ELSE [called |-> FALSE, st |-> st]

MacroFrame ==
    UNCHANGED <<darc, loggers, hist, D, poisoned, build, aborted, fused,
                threads, lock>>

\* log!(logger, level, "", ..)
MacroLog(level, beh) ==
    /\ LET r == LogMacro(loggers[1], level, Env(build, beh), CallState)
       IN  /\ heap' = r.st.heap
           /\ last' = [op |-> "macro", name |-> "log", level |-> level,
                       called |-> r.called, ev |-> r.st.ev]
    /\ MacroFrame

\* crit!, error!, warn!, info!, debug!, trace!: log! with the macro's level
MacroNamed(name, beh) ==
    /\ LET r == LogMacro(loggers[1], MacroLevel[name], Env(build, beh), CallState)
       IN  /\ heap' = r.st.heap
           /\ last' = [op |-> "macro", name |-> name, level |-> MacroLevel[name],
                       called |-> r.called, ev |-> r.st.ev]
    /\ MacroFrame

\* Logger::root(MacroDrain, o!("a" => ..)) in some build
InitMacro ==
    /\ heap = OwnedKVListRoot([n \in NodeIds |-> FreeNode], <<"a">>)
    /\ darc = [i \in DrainIds |-> IF i = 1 THEN [rc |-> 1, val |-> MacroDrain]
                                  ELSE FreeDrainCell]
    /\ loggers = << [drain |-> 1,
                     list |-> CHOOSE n \in NodeIds : heap[n].k = "kv"] >>
    /\ hist = << << <<"a">> >> >>
    /\ D = MacroDrain
    /\ poisoned = {}
    /\ build \in MacroBuilds
    /\ aborted = FALSE
    /\ fused = FALSE
    /\ last = [op |-> "init"]
    /\ threads = <<>>
    /\ lock = 0

NextMacro ==
    \/ \E level \in Levels, beh \in SinkBehaviours : MacroLog(level, beh)
    \/ \E name \in DOMAIN MacroLevel, beh \in SinkBehaviours : MacroNamed(name, beh)

SpecMacro == InitMacro /\ [][NextMacro]_vars

----------------------------------------------------------------------------
(* SpecKV: Value::serialize and KV::serialize on key-value groups built by *)
(* kv!, with plain and lazy values and a serializer that may fail.         *)

\* the most pairs written in one kv! group
MaxPairs == 3

\* the keys of a group, in the order they are written
GroupKeys == <<"k1", "k2", "k3", "k4">>

\* what the closure of a PushFnValue does with the handle it is given:
\* emit(v) and return its result; emit(v), discard the result and return Ok;
\* return Ok, return an error, or panic without emitting
PushFnClosures == {"emit", "emit_discard", "ok", "err", "panic"}

PlainValue == [t |-> "plain"]

\* FnValue(f): f returns a plain value
FnValue == [t |-> "fn"]

\* PushFnValue(f)
PushFnValue(f) == [t |-> "push", f |-> f]

Values == {PlainValue, FnValue} \cup { PushFnValue(f) : f \in PushFnClosures }

\* the Serializer a sink passes: the fields it accepted, the emit calls made
\* on it, the emit call it fails (0: none), the keys whose closure was
\* invoked, the pairs serialized with their results, and the last result
KVSerializer(failAt) ==
    [ out |-> <<>>, att |-> <<>>, failAt |-> failAt, calls |-> <<>>,
      log |-> <<>>, res |-> Ok(Unit) ]

SerializerError == [tag |-> "SerializerError"]

ClosureError == [tag |-> "ClosureError"]

\* Serializer::emit_*(key, val)
EmitField(s, key, val) ==
    LET s1 == [s EXCEPT !.att = Append(@, [key |-> key, val |-> val])]
    IN  IF Len(s1.att) = s.failAt
        THEN [s1 EXCEPT !.res = Err(SerializerError)]
        ELSE [s1 EXCEPT !.out = Append(@, [key |-> key, val |-> val]),
                        !.res = Ok(Unit)]

\* PushFnValueSerializer::emit: self.done = true; s.serialize(record, key, serializer)
PushFnValueSerializerEmit(h, key) ==
    [done |-> TRUE, s |-> EmitField(h.s, key, "v")]

\* the closure of a PushFnValue, given the handle h
PushFnClosure(f, h, key) ==
    LET h0 == [h EXCEPT !.s.calls = Append(@, key)]
    IN  CASE f = "emit" -> PushFnValueSerializerEmit(h0, key)
          [] f = "emit_discard" ->
                [PushFnValueSerializerEmit(h0, key) EXCEPT !.s.res = Ok(Unit)]
          [] f = "ok" -> [h0 EXCEPT !.s.res = Ok(Unit)]
          [] f = "err" -> [h0 EXCEPT !.s.res = Err(ClosureError)]
          [] f = "panic" -> [h0 EXCEPT !.s.res = Panic("closure")]

PushFnValueSerializerDropNoUnit(h, key) == h.s

\* Drop for PushFnValueSerializer (at the closure's return or while a panic
\* unwinds): if !self.done { let _ = self.serializer.emit_unit(key) }
PushFnValueSerializerDrop(h, key) ==
    IF ~h.done
    THEN [EmitField(h.s, key, "()") EXCEPT !.res = h.s.res]
    ELSE h.s

\* Value::serialize for a plain value, for FnValue and for PushFnValue
ValueSerialize(v, key, s) ==
    CASE v.t = "plain" -> EmitField(s, key, "v")
      [] v.t = "fn" -> EmitField([s EXCEPT !.calls = Append(@, key)], key, "v")
      [] v.t = "push" ->
            LET ser == [done |-> FALSE, s |-> s]
            IN  PushFnValueSerializerDrop(PushFnClosure(v.f, ser, key), key)

\* the KV values
UnitKV == [t |-> "unit"]

SingleKV(key, v) == [t |-> "single", key |-> key, v |-> v]

TupleKV(a, b) == [t |-> "tuple", a |-> a, b |-> b]

OwnedKVListNode(kv, next) == [t |-> "node", kv |-> kv, next |-> next]

MultiListNode(next, node) == [t |-> "multi", next |-> next, node |-> node]

RECURSIVE KvMacroInOrder(_)
KvMacroInOrder(pairs) ==
    IF pairs = <<>> THEN UnitKV
    ELSE TupleKV(SingleKV(Head(pairs).key, Head(pairs).v), KvMacroInOrder(Tail(pairs)))

RECURSIVE KvMacroAcc(_, _)
\* kv!(@ $args_ready; $k => $v, $($args)*): the pair goes in front of what is
\* ready, and the rest is expanded with that
KvMacroAcc(ready, pairs) ==
    IF pairs = <<>> THEN ready
    ELSE KvMacroAcc(TupleKV(SingleKV(Head(pairs).key, Head(pairs).v), ready),
                    Tail(pairs))

\* kv!($($args)*) is kv!(@ (); $($args)*); o! and b! wrap it in OwnedKV and
\* BorrowedKV, which serialize what they hold
KvMacro(pairs) == KvMacroAcc(UnitKV, pairs)

RECURSIVE KVSerialize(_, _)

\* KV for SingleKV: self.1.serialize(record, self.0.clone(), serializer)
SingleKVSerialize(o, s) ==
    LET s1 == ValueSerialize(o.v, o.key, s)
    IN  [s1 EXCEPT !.log = Append(@, [key |-> o.key, res |-> s1.res])]

TupleKVSerializeNoTry(o, s) == KVSerialize(o.b, KVSerialize(o.a, s))

\* KV for (T, R): try!(self.0.serialize(..)); self.1.serialize(..)
TupleKVSerialize(o, s) ==
    LET s1 == KVSerialize(o.a, s)
    IN  IF IsOk(s1.res) THEN KVSerialize(o.b, s1) ELSE s1

\* KV for OwnedKVListNode: try!(self.kv.serialize(..));
\* try!(self.next_node.serialize(..)); Ok(())
OwnedKVListNodeSerialize(o, s) ==
    LET s1 == KVSerialize(o.kv, s)
    IN  IF IsOk(s1.res) THEN KVSerialize(o.next, s1) ELSE s1

\* KV for MultiListNode: try!(self.next_node.serialize(..));
\* try!(self.node.serialize(..)); Ok(())
MultiListNodeSerialize(o, s) ==
    LET s1 == KVSerialize(o.next, s)
    IN  IF IsOk(s1.res) THEN KVSerialize(o.node, s1) ELSE s1

\* dynamic dispatch on the KV's type; KV for (): Ok(())
KVSerialize(o, s) ==
    CASE o.t = "unit" -> [s EXCEPT !.res = Ok(Unit)]
      [] o.t = "single" -> SingleKVSerialize(o, s)
      [] o.t = "tuple" -> TupleKVSerialize(o, s)
      [] o.t = "node" -> OwnedKVListNodeSerialize(o, s)
      [] o.t = "multi" -> MultiListNodeSerialize(o, s)

\* the values written in the groups
GroupValues == {PlainValue, FnValue, PushFnValue("err")}

\* the groups kv! is given: up to MaxPairs pairs, keyed k1, k2, .. as written
Groups ==
    UNION { { [i \in 1..n |-> [key |-> GroupKeys[i], v |-> vs[i]]] :
                vs \in [1..n -> GroupValues] } : n \in 0..MaxPairs }

\* the values held in the chains
ChainValues == {PlainValue, PushFnValue("err"), PushFnValue("ok")}

\* a Logger's chain: a child node made with o!("k1" => .., "k2" => ..) over a
\* root node made with o!("k3" => ..)
Chains ==
    { OwnedKVListNode(
          KvMacro(<<[key |-> "k1", v |-> v1], [key |-> "k2", v |-> v2]>>),
          OwnedKVListNode(KvMacro(<<[key |-> "k3", v |-> v3]>>), UnitKV)) :
        v1 \in ChainValues, v2 \in ChainValues, v3 \in ChainValues }

\* the list of a Logger used as a drain: one root node made with o!("k4" => ..)
DrainLists ==
    { OwnedKVListNode(KvMacro(<<[key |-> "k4", v |-> v4]>>), UnitKV) :
        v4 \in ChainValues }

\* what a sink is handed: a chain, or the combined list Logger-as-Drain builds
\* from the incoming chain and its own list
SinkLists ==
    Chains \cup { MultiListNode(c, d) : c \in Chains, d \in DrainLists }

\* the emit call the serializer fails
FailAts == 0..(MaxPairs + 1)

KVFrame ==
    UNCHANGED <<heap, darc, loggers, hist, D, poisoned, build, aborted, fused,
                threads, lock>>

\* value.serialize(record, key, serializer)
SerializeValue(v, failAt) ==
    /\ last' = [op |-> "value", v |-> v, key |-> GroupKeys[1],
                s |-> ValueSerialize(v, GroupKeys[1], KVSerializer(failAt))]
    /\ KVFrame

\* kv!(..).serialize(record, serializer)
SerializeGroup(pairs, failAt) ==
    /\ last' = [op |-> "group", pairs |-> pairs,
                s |-> KVSerialize(KvMacro(pairs), KVSerializer(failAt))]
    /\ KVFrame

\* list.serialize(record, serializer) on a chain or a combined list
SerializeList(list, failAt) ==
    /\ last' = [op |-> "list", list |-> list,
                s |-> KVSerialize(list, KVSerializer(failAt))]
    /\ KVFrame

InitKV ==
    /\ heap = [n \in NodeIds |-> FreeNode]
    /\ darc = [i \in DrainIds |-> FreeDrainCell]
    /\ loggers = <<>>
    /\ hist = <<>>
    /\ D = Discard
    /\ poisoned = {}
    /\ build = DefaultBuild
    /\ aborted = FALSE
    /\ fused = FALSE
    /\ last = [op |-> "init"]
    /\ threads = <<>>
    /\ lock = 0

NextKV ==
    \/ \E v \in Values, failAt \in FailAts : SerializeValue(v, failAt)
    \/ \E pairs \in Groups, failAt \in FailAts : SerializeGroup(pairs, failAt)
    \/ \E list \in SinkLists, failAt \in FailAts : SerializeList(list, failAt)

SpecKV == InitKV /\ [][NextKV]_vars

----------------------------------------------------------------------------
(* Claims about the logger tree (checked under Spec) *)

RECURSIVE ExpectedFields(_)
\* the payloads of a derivation history, newest first
ExpectedFields(hs) ==
    IF hs = <<>> THEN <<>>
    ELSE hs[Len(hs)] \o ExpectedFields(SubSeq(hs, 1, Len(hs) - 1))

\* the events of a call record whose path is p
CallsAt(ev, p) == {k \in DOMAIN ev : ev[k].path = p}

RECURSIVE Reach(_, _)
\* the cells on the path from n to the terminator(s)
Reach(h, n) ==
    CASE h[n].k = "kv" -> {n} \cup Reach(h, h[n].next)
      [] h[n].k = "multi" -> {n} \cup Reach(h, h[n].next) \cup Reach(h, h[n].node)
      [] OTHER -> {n}

\* the number of Arcs that point at cell n: handles, cells, and Loggers held
\* as drains
Referrers(h, da, ls, n) ==
    Cardinality({i \in DOMAIN ls : ls[i].list = n})
    + Cardinality({m \in Allocated(h) : h[m].k \in {"kv", "multi"} /\ h[m].next = n})
    + Cardinality({m \in Allocated(h) : h[m].k = "multi" /\ h[m].node = n})
    + Cardinality({i \in DOMAIN da : da[i].val.t = "Logger" /\ da[i].val.list = n})

\* C1: for a logger made by root(...) and any number of new(...), serializing
\* its context chain emits each node's payload exactly once, from the most
\* recently added node to the root: the output is the concatenation of the
\* payloads given to new/root, newest first, and the serializer reports Ok.
C1_ChainNewestFirst ==
    /\ \A i \in Handles :
          ListSerialize(heap, loggers[i].list, NewSerializer(0))
            = [out |-> ExpectedFields(hist[i]), ok |-> TRUE, failAt |-> 0]
    /\ last.op = "serialize" =>
          last.ok /\ last.out = ExpectedFields(hist[last.h])

\* root {a}, new {b, c}, new {a} has just been serialized as a, b, c, a
C1_Witness ==
    /\ last.op = "serialize"
    /\ hist[last.h] = << <<"a">>, <<"b", "c">>, <<"a">> >>
    /\ last.out = <<"a", "b", "c", "a">>

\* C2: new allocates exactly one chain node, whose parent pointer is the head
\* node of the logger it was called on, which is shared (one more reference,
\* no copy); clone allocates no node and the clone's head is the original's.
C2_NewSharesCloneAllocatesNothing ==
    [][ /\ last'.op = "new" =>
            LET src == loggers[last'.src]
                nl == loggers'[last'.h]
            IN  /\ Allocated(heap') = Allocated(heap) \cup {nl.list}
                /\ nl.list \notin Allocated(heap)
                /\ heap'[nl.list].k = "kv"
                /\ heap'[nl.list].next = src.list
                /\ heap'[src.list].rc = heap[src.list].rc + 1
                /\ \A n \in Allocated(heap) \ {src.list} : heap'[n] = heap[n]
        /\ last'.op = "clone" =>
            /\ Allocated(heap') = Allocated(heap)
            /\ loggers'[last'.h].list = loggers[last'.src].list
            /\ heap'[loggers[last'.src].list].rc
                 = heap[loggers[last'.src].list].rc + 1
            /\ \A n \in Allocated(heap) \ {loggers[last'.src].list} :
                  heap'[n] = heap[n]
      ]_vars

\* a logger made by new has just been cloned: both handles hold the one head
C2_Witness ==
    /\ last.op = "clone"
    /\ Len(hist[last.h]) = 2
    /\ loggers[last.h].list = loggers[last.src].list
    /\ heap[loggers[last.h].list].rc = 2
    /\ heap[loggers[last.h].list].next \in Allocated(heap)

\* what dropping handle i leaves of the handles
AfterDrop(s, i) == Remove(s, i)

\* C3: dropping a logger never changes what another live logger serializes;
\* every cell reachable from a live logger is allocated and counts at least
\* the Arcs that point at it; a cell is released only when no live logger,
\* cell or drain points at it.
C3_DropLeavesOthersIntact ==
    /\ [](\A i \in Handles :
            \A n \in Reach(heap, loggers[i].list) :
               /\ n \in Allocated(heap)
               /\ heap[n].rc >= 1
               /\ heap[n].rc >= Referrers(heap, darc, loggers, n))
    /\ [][ /\ last'.op = "drop" =>
                /\ loggers' = AfterDrop(loggers, last'.h)
                /\ \A j \in DOMAIN loggers \ {last'.h} :
                      /\ ListSerialize(heap', loggers[j].list, NewSerializer(0))
                           = ListSerialize(heap, loggers[j].list, NewSerializer(0))
                      /\ Reach(heap', loggers[j].list) = Reach(heap, loggers[j].list)
           /\ \A n \in Allocated(heap) \ Allocated(heap') :
                Referrers(heap', darc', loggers', n) = 0
         ]_vars

\* a handle was dropped while another handle shares at least its head's
\* parent, and that handle's chain is still whole
C3_Witness ==
    /\ last.op = "drop"
    /\ \E j \in Handles :
          /\ Len(hist[j]) >= 2
          /\ heap[heap[loggers[j].list].next].rc >= 1
          /\ Fields(heap, loggers[j].list) = ExpectedFields(hist[j])
    /\ \E n \in NodeIds : heap[n].k = "released"

\* the part of a cell that is fixed at construction
Frozen(cell) == [k |-> cell.k, kv |-> cell.kv, next |-> cell.next, node |-> cell.node]

\* C4: a chain node's payload and parent pointer never change while the node
\* is allocated, whatever operation runs, and neither does the drain a Logger
\* (a handle, or a Logger held as a drain) refers to.
C4_NodesAndDrainImmutable ==
    [][ /\ \A n \in Allocated(heap) \cap Allocated(heap') :
              Frozen(heap'[n]) = Frozen(heap[n])
        /\ \A i \in DOMAIN darc :
              (darc[i].rc > 0 /\ darc'[i].rc > 0) => darc'[i].val = darc[i].val
        /\ IF last'.op = "drop"
           THEN loggers' = AfterDrop(loggers, last'.h)
           ELSE \A i \in DOMAIN loggers : loggers'[i] = loggers[i]
        /\ last'.op = "log" =>
              \A k \in DOMAIN last'.ev :
                 \A n \in Allocated(heap) :
                    n \in last'.ev[k].live
      ]_vars

\* a log call went through a Logger used as a drain, over shared nodes
C4_Witness ==
    /\ last.op = "log"
    /\ \E k \in DOMAIN last.ev : last.ev[k].t = "Logger"
    /\ \E n \in Allocated(heap) : heap[n].rc >= 2

\* C5: a Logger used as a Drain calls its own drain exactly once, with a
\* context that serializes to the incoming fields followed by the fields of
\* its own chain; the context is one fresh node, no other node is added, the
\* node is gone when the call has returned, and the heap is as before.
C5_LoggerAsDrainCombines ==
    [][ last'.op = "log" =>
          /\ heap' = heap
          /\ \A k \in DOMAIN last'.ev :
                last'.ev[k].t = "Logger" =>
                   LET e == last'.ev[k]
                       inner == CallsAt(last'.ev, e.path \o <<1>>)
                   IN  /\ Cardinality(inner) = 1
                       /\ \A c \in inner :
                             /\ c = k + 1
                             /\ last'.ev[c].fields
                                  = e.fields \o Fields(heap, e.own)
                             /\ last'.ev[c].ctx \notin e.live
                             /\ last'.ev[c].live = e.live \cup {last'.ev[c].ctx}
                             /\ last'.ev[c].ctx \notin Allocated(heap')
                             /\ last'.ev[c].level = e.level
                             /\ last'.ev[c].res = e.res
      ]_vars

\* a record with context b, c reached a Logger whose own chain is a
C5_Witness ==
    /\ last.op = "log"
    /\ \E k \in DOMAIN last.ev :
          /\ last.ev[k].t = "Logger"
          /\ last.ev[k].fields = <<"b", "c">>
          /\ last.ev[k + 1].fields = <<"b", "c", "a">>
          /\ \E j \in DOMAIN last.ev : last.ev[j].wrote

\* C6: Logger::log calls the logger's drain exactly once, within the call,
\* with the logger's whole chain as context, returns unit whatever the drain
\* and the sinks below it answered, and leaves chain and drain unchanged.
C6_LogCallsDrainOnce ==
    [][ last'.op = "log" =>
          /\ heap' = heap /\ darc' = darc /\ loggers' = loggers
          /\ Cardinality(CallsAt(last'.ev, <<>>)) = 1
          /\ last'.ev[1].path = <<>>
          /\ last'.ev[1].t = "Arc"
          /\ last'.ev[1].ctx = loggers[last'.h].list
          /\ last'.ev[1].fields = ExpectedFields(hist[last'.h])
          /\ last'.ev[1].level = "Info"
          /\ \A k \in DOMAIN last'.ev : last'.ev[k].res # Pending
          /\ last'.ret = Unit
      ]_vars

\* a logger with a two-node chain logged, its sink failed, and log returned
C6_Witness ==
    /\ last.op = "log"
    /\ Len(hist[last.h]) = 2
    /\ last.ev[1].fields = <<"b", "c", "a">>
    /\ \E k \in DOMAIN last.ev : last.ev[k].t = "Sink" /\ IsErr(last.ev[k].res)
    /\ last.ret = Unit


----------------------------------------------------------------------------
(* Claims about the drain combinators (checked under SpecDrain) *)

\* p is a prefix of q: the call at q is made inside the call at p
IsPrefix(p, q) == Len(p) <= Len(q) /\ SubSeq(q, 1, Len(p)) = p

\* the call ev[c] was made by ev[k] with the record and context ev[k] received
SameArguments(ev, k, c) ==
    /\ c > k
    /\ ev[c].level = ev[k].level
    /\ ev[c].ctx = ev[k].ctx
    /\ ev[c].fields = ev[k].fields

\* C7: Duplicate(A, B).log calls A once and, when A has returned (Ok or Err),
\* B once after A has finished, both with the record and context it received;
\* it returns Ok((a, b)) when both returned Ok and Err((rA, rB)) with the two
\* complete results otherwise.  (A panic of A unwinds through the call.)
C7_DuplicateCallsBothAndPairsResults ==
    last.op = "log" =>
        \A k \in DOMAIN last.ev :
            last.ev[k].t = "Duplicate" =>
                LET e == last.ev[k]
                    A == CallsAt(last.ev, e.path \o <<1>>)
                    B == CallsAt(last.ev, e.path \o <<2>>)
                IN  /\ Cardinality(A) = 1
                    /\ \A a \in A :
                        /\ SameArguments(last.ev, k, a)
                        /\ ~IsPanic(last.ev[a].res) =>
                            /\ Cardinality(B) = 1
                            /\ \A b \in B :
                                /\ SameArguments(last.ev, k, b)
                                /\ \A j \in DOMAIN last.ev :
                                       IsPrefix(e.path \o <<1>>, last.ev[j].path) => j < b
                                /\ ~IsPanic(last.ev[b].res) =>
                                       e.res = IF IsOk(last.ev[a].res) /\ IsOk(last.ev[b].res)
                                               THEN Ok(Pair(last.ev[a].res.a, last.ev[b].res.a))
                                               ELSE Err(Pair(last.ev[a].res, last.ev[b].res))

\* a Duplicate whose first side succeeded and whose second side failed
\* returned the error that carries Ok(a) and Err(eB)
C7_Witness ==
    /\ last.op = "log"
    /\ \E k, a, b \in DOMAIN last.ev :
        /\ last.ev[k].t = "Duplicate"
        /\ last.ev[a].path = last.ev[k].path \o <<1>>
        /\ last.ev[b].path = last.ev[k].path \o <<2>>
        /\ IsOk(last.ev[a].res)
        /\ IsErr(last.ev[b].res)
        /\ last.ev[k].res = Err(Pair(last.ev[a].res, last.ev[b].res))

\* C8 (as stated): an error under a Fuse is the end of the process, so no log
\* call is made through the drain once a Fuse in it has met an error
C8_NoLogAfterFuseError == ~(last.op = "log" /\ last.was.fused)

\* C8 (amended): Fuse(D).log calls D once with the record and context it
\* received; for D's Ok it returns Ok(()); for D's Err(e) it panics with e and
\* returns no value, and neither does any enclosing drain call; the process
\* ends only on such a panic, and a Fuse that has panicked before still
\* answers by these rules.
C8_FusePanicsOnError ==
    /\ aborted => (last.op = "log" /\ IsPanic(last.res))
    /\ last.op = "log" =>
        \A k \in DOMAIN last.ev :
            last.ev[k].t = "Fuse" =>
                LET e == last.ev[k]
                    I == CallsAt(last.ev, e.path \o <<1>>)
                IN  /\ Cardinality(I) = 1
                    /\ \A c \in I :
                        /\ SameArguments(last.ev, k, c)
                        /\ IsOk(last.ev[c].res) => e.res = Ok(Unit)
                        /\ IsErr(last.ev[c].res) =>
                            /\ e.res = Panic(last.ev[c].res.a)
                            /\ IsPanic(last.res)
                            /\ \A j \in DOMAIN last.ev :
                                   IsPrefix(last.ev[j].path, e.path) =>
                                       IsPanic(last.ev[j].res)

\* a Fuse that panicked in an earlier call is called again, its drain
\* succeeds, and it returns Ok(())
C8_Witness ==
    /\ last.op = "log"
    /\ last.was.fused
    /\ ~aborted
    /\ \E k, c \in DOMAIN last.ev :
        /\ last.ev[k].t = "Fuse"
        /\ last.ev[c].path = last.ev[k].path \o <<1>>
        /\ IsOk(last.ev[c].res)
        /\ last.ev[k].res = Ok(Unit)

\* C9: IgnoreResult(D).log calls D once with the record and context it
\* received and returns Ok(()) whether D returned Ok or Err; D's error never
\* becomes a panic or the end of the process.
C9_IgnoreResultAlwaysOk ==
    last.op = "log" =>
        \A k \in DOMAIN last.ev :
            last.ev[k].t = "IgnoreResult" =>
                LET e == last.ev[k]
                    I == CallsAt(last.ev, e.path \o <<1>>)
                IN  /\ Cardinality(I) = 1
                    /\ \A c \in I :
                        /\ SameArguments(last.ev, k, c)
                        /\ ~IsPanic(last.ev[c].res) => e.res = Ok(Unit)
                        /\ (IsErr(last.ev[c].res) /\ e.path = <<>>) =>
                               (IsOk(last.res) /\ ~aborted)

\* an IgnoreResult whose drain returned an error returned Ok(())
C9_Witness ==
    /\ last.op = "log"
    /\ \E k, c \in DOMAIN last.ev :
        /\ last.ev[k].t = "IgnoreResult"
        /\ last.ev[c].path = last.ev[k].path \o <<1>>
        /\ IsErr(last.ev[c].res)
        /\ last.ev[k].res = Ok(Unit)

\* C10: when is_enabled(L) answers false for a drain, a log call with a
\* record of level L through that drain makes no terminal sink write
C10_NoFalseNegative ==
    (last.op = "log" /\ ~last.en) =>
        \A k \in DOMAIN last.ev : ~last.ev[k].wrote


RECURSIVE DrainAt(_, _)
\* the drain that the call at path p of a composition d is made on
DrainAt(d, p) ==
    IF p = <<>> THEN d
    ELSE DrainAt(IF Head(p) = 2 THEN d.d1 ELSE d.d0, Tail(p))

\* the sink answers is_enabled is asked under (it never reaches a sink's log)
QuietEnv == Env(build, [i \in SinkIds |-> "Ok"])

\* C11: LevelFilter(D, T).log calls D (once, with the record and context it
\* received) exactly when the record's level is at least T; it then returns
\* Ok(Some(x)) for D's Ok(x) and D's error as it is, and Ok(None) when D is
\* not called; is_enabled(L) is L.is_at_least(T) and D.is_enabled(L).
C11_LevelFilterForwardsAtThreshold ==
    /\ last.op = "log" =>
        \A k \in DOMAIN last.ev :
            last.ev[k].t = "LevelFilter" =>
                LET e == last.ev[k]
                    T == DrainAt(D, e.path).level
                    I == CallsAt(last.ev, e.path \o <<1>>)
                IN  /\ Cardinality(I) = (IF IsAtLeast(e.level, T) THEN 1 ELSE 0)
                    /\ I = {} => e.res = Ok(None)
                    /\ \A c \in I :
                        /\ SameArguments(last.ev, k, c)
                        /\ IsOk(last.ev[c].res) => e.res = Ok(Some(last.ev[c].res.a))
                        /\ IsErr(last.ev[c].res) => e.res = last.ev[c].res
    /\ (last.op = "is_enabled" /\ D.t = "LevelFilter") =>
        last.ret = (/\ IsAtLeast(last.level, D.level)
                    /\ IsEnabled(D.d0, last.level, QuietEnv, poisoned))

\* a record exactly at the threshold was forwarded and D's error came back
\* unchanged
C11_Witness ==
    /\ last.op = "log"
    /\ \E k, c \in DOMAIN last.ev :
        /\ last.ev[k].t = "LevelFilter"
        /\ last.ev[k].level = DrainAt(D, last.ev[k].path).level
        /\ last.ev[c].path = last.ev[k].path \o <<1>>
        /\ IsErr(last.ev[c].res)
        /\ last.ev[k].res = last.ev[c].res

\* C12: Filter(D, p).log evaluates p once and calls D (once, with the record
\* and context it received) exactly when p(record) holds; it then returns
\* Ok(Some(x)) for D's Ok(x) and D's error as it is, and Ok(None) when D is
\* not called; is_enabled(L) is D.is_enabled(L).
C12_FilterForwardsOnPredicate ==
    /\ last.op = "log" =>
        \A k \in DOMAIN last.ev :
            last.ev[k].t = "Filter" =>
                LET e == last.ev[k]
                    f == DrainAt(D, e.path).f
                    I == CallsAt(last.ev, e.path \o <<1>>)
                IN  /\ e.calls = 1
                    /\ Cardinality(I) =
                           (IF ApplyFilterFn(f, [level |-> e.level]) THEN 1 ELSE 0)
                    /\ I = {} =>
                        /\ e.res = Ok(None)
                        /\ \A j \in DOMAIN last.ev :
                               j > k => ~IsPrefix(e.path, last.ev[j].path)
                    /\ \A c \in I :
                        /\ SameArguments(last.ev, k, c)
                        /\ IsOk(last.ev[c].res) => e.res = Ok(Some(last.ev[c].res.a))
                        /\ IsErr(last.ev[c].res) => e.res = last.ev[c].res
    /\ (last.op = "is_enabled" /\ D.t = "Filter") =>
        last.ret = IsEnabled(D.d0, last.level, QuietEnv, poisoned)

\* a Filter whose predicate rejected the record returned Ok(None) although
\* its drain would have written
C12_Witness ==
    /\ last.op = "log"
    /\ D.t = "Filter"
    /\ D.d0.t = "Sink"
    /\ last.ev[1].calls = 1
    /\ Len(last.ev) = 1
    /\ last.res = Ok(None)

\* C13: MapError(D, f).log calls D once with the record and context it
\* received; D's Ok(x) is returned as it is and f is not called; D's Err(e)
\* is returned as Err(f(e)) and f is called once; is_enabled(L) is
\* D.is_enabled(L).
C13_MapErrorMapsOnlyErrors ==
    /\ last.op = "log" =>
        \A k \in DOMAIN last.ev :
            last.ev[k].t = "MapError" =>
                LET e == last.ev[k]
                    f == DrainAt(D, e.path).f
                    I == CallsAt(last.ev, e.path \o <<1>>)
                IN  /\ Cardinality(I) = 1
                    /\ \A c \in I :
                        /\ SameArguments(last.ev, k, c)
                        /\ IsOk(last.ev[c].res) =>
                               (e.res = last.ev[c].res /\ e.calls = 0)
                        /\ IsErr(last.ev[c].res) =>
                               /\ e.res = Err(MapErrFnApply(f, last.ev[c].res.a))
                               /\ e.calls = 1
    /\ (last.op = "is_enabled" /\ D.t = "MapError") =>
        last.ret = IsEnabled(D.d0, last.level, QuietEnv, poisoned)

\* a MapError whose drain failed returned the mapped error
C13_Witness ==
    /\ last.op = "log"
    /\ \E k, c \in DOMAIN last.ev :
        /\ last.ev[k].t = "MapError"
        /\ last.ev[c].path = last.ev[k].path \o <<1>>
        /\ IsErr(last.ev[c].res)
        /\ last.ev[k].calls = 1
        /\ last.ev[k].res = Err(MapErrFnApply("f", last.ev[c].res.a))


----------------------------------------------------------------------------
(* Claims about the Mutex wrapper under threads (checked under SpecMutex) *)

\* the threads whose call on the inner drain is in progress
InsideInner == { t \in ThreadIds : threads[t].pc = "inside" }

\* C14: at most one thread is inside the inner drain's log or is_enabled;
\* a thread is there (or between lock() and the end of its call) only while
\* it holds the guard, and a thread outside a call holds no guard.
C14_InnerDrainUnderGuardOnly ==
    /\ Cardinality(InsideInner) <= 1
    /\ \A t \in ThreadIds :
        /\ threads[t].pc \in {"inside", "leave", "bail"} => lock = t
        /\ threads[t].pc \in {"idle", "lock", "dead"} => lock # t

\* one thread is inside the inner drain while another waits in lock()
C14_Witness ==
    \E t, u \in ThreadIds :
        /\ t # u
        /\ threads[t].pc = "inside"
        /\ threads[u].pc = "lock"
        /\ lock = t

\* C15: once a panic has unwound through the guard the mutex is poisoned for
\* good, and a log call that takes the lock of a poisoned mutex (so every call
\* begun after the panic) returns MutexDrainError::Mutex without calling the
\* inner drain; an inner Err(e) comes back as MutexDrainError::Drain(e), an
\* inner Ok as it is, and neither poisons the mutex.
C15_PoisonedMutexReportsMutexError ==
    /\ fused => D.m \in poisoned
    /\ last.op = "mutex_log" =>
        /\ last.was => last.seen
        /\ last.seen => (last.res = Err(MutexErrMutex) /\ ~last.called)
        /\ ~last.seen =>
            /\ last.called
            /\ IsOk(last.inner) => (last.res = last.inner /\ ~last.now)
            /\ IsErr(last.inner) =>
                   (last.res = Err(MutexErrDrain(last.inner.a)) /\ ~last.now)
            /\ IsPanic(last.inner) => last.now

\* after one thread panicked under the guard, a call begun later by another
\* thread got MutexDrainError::Mutex
C15_Witness ==
    /\ last.op = "mutex_log"
    /\ last.was
    /\ last.res = Err(MutexErrMutex)
    /\ \E u \in ThreadIds : u # last.t /\ threads[u].pc = "dead"


----------------------------------------------------------------------------
(* Claims about Loggers shared by threads (checked under SpecThreads) *)

AllThreads == DOMAIN threads

HandleNames == {"base", "child", "copy"}

Live(h, n) == n \in DOMAIN h /\ h[n].k \in {"kv", "unit"}

\* the references to cell n that exist: Logger handles, next_node of live
\* cells, the clone a thread has made for the node it is about to build, and
\* the reference a thread is about to give up
ThreadRefs(n) ==
    Cardinality({ <<t, w>> \in AllThreads \X HandleNames : threads[t].hs[w].list = n })
    + Cardinality({ m \in Allocated(heap) : heap[m].k = "kv" /\ heap[m].next = n })
    + Cardinality({ t \in AllThreads : threads[t].pc = "new3" /\ threads[t].tmp = n })
    + Cardinality({ t \in AllThreads : threads[t].pc = "dropping" /\ threads[t].cur = n })

\* C16: in every interleaving, every cell and the drain a thread can still
\* reach are alive and hold what they were built with, every reference count
\* is the number of references that exist, and the fields a thread's sink
\* call reads are its own key followed by the root's fields.
C16_ThreadsShareChainSafely ==
    /\ \A t \in AllThreads :
        /\ \A w \in HandleNames :
            threads[t].hs[w] # NoHandle =>
                /\ Live(heap, threads[t].hs[w].list)
                /\ darc[threads[t].hs[w].drain].rc > 0
                /\ darc[threads[t].hs[w].drain].val = SharedDrain
        /\ threads[t].hs["child"] # NoHandle =>
            /\ heap[threads[t].hs["child"].list].kv = <<ThreadKeys[t]>>
            /\ heap[threads[t].hs["child"].list].next = CallerList
        /\ threads[t].pc = "ser" =>
            (Live(heap, threads[t].cur) /\ darc[threads[t].tmp].val = SharedDrain)
        /\ threads[t].pc = "new3" => Live(heap, threads[t].tmp)
        /\ threads[t].pc = "dropping" => Live(heap, threads[t].cur)
    /\ \A n \in Allocated(heap) :
        /\ heap[n].rc = ThreadRefs(n)
        /\ heap[n].k = "kv" => Live(heap, heap[n].next)
        /\ n = CallerList => heap[n].kv = <<"a">>
    /\ last.op = "thread_log" =>
        /\ last.out = <<ThreadKeys[last.t], "a">>
        /\ last.drain.val = SharedDrain

\* a thread's log through its copy, after it dropped base and child and after
\* the owner dropped the root, while another thread is serializing
C16_Witness ==
    /\ last.op = "thread_log"
    /\ threads[last.t].pc = "drop_copy"
    /\ threads[0].pc = "done"
    /\ \E u \in AllThreads : u # last.t /\ threads[u].pc = "ser"

----------------------------------------------------------------------------
(* Claims about Level and FilterLevel (checked under SpecLevel) *)

\* the fixed order of severity, the most severe first
SeverityOrder == <<"Critical", "Error", "Warning", "Info", "Debug", "Trace">>

Rank(l) == CHOOSE i \in DOMAIN SeverityOrder : SeverityOrder[i] = l

\* C17: for all levels L1, L2, L1.is_at_least(L2) is true iff L1 is at least
\* as severe as L2 in the order Critical > Error > Warning > Info > Debug >
\* Trace, equivalently iff L1.as_usize() <= L2.as_usize(); Debug is at least
\* Debug and at least Trace, and is not at least Info.
C17_IsAtLeastIsSeverityOrder ==
    last.op = "is_at_least" =>
        /\ last.ret = (Rank(last.l1) <= Rank(last.l2))
        /\ last.ret = (LevelAsUsize(last.l1) <= LevelAsUsize(last.l2))
        /\ (last.l1 = "Debug" /\ last.l2 \in {"Debug", "Trace"}) => last.ret
        /\ (last.l1 = "Debug" /\ last.l2 = "Info") => ~last.ret

\* Debug.is_at_least(Debug) has answered true
C17_Witness ==
    /\ last.op = "is_at_least"
    /\ last.l1 = "Debug"
    /\ last.l2 = "Debug"
    /\ last.ret

\* C18: for every Level L the FilterLevel member of the same name has the
\* ordinal of L, and the ordinal of FilterLevel::Off is strictly less than the
\* ordinal of every Level.
C18_FilterLevelOrdinalsAgree ==
    last.op = "as_usize" =>
        /\ last.filter = last.level
        /\ last.off < last.level

\* the ordinals of Level::Critical, the least of the Levels, were compared
C18_Witness ==
    /\ last.op = "as_usize"
    /\ last.l = "Critical"
    /\ last.level = 1
    /\ last.off = 0

\* the enumeration member that carries each name of LOG_LEVEL_NAMES; Level
\* has every member but Off
MemberNamed == <<"Off", "Critical", "Error", "Warning", "Info", "Debug", "Trace">>

\* C19: every name of LOG_LEVEL_NAMES, in any mix of ASCII upper and lower
\* case, parses as a Level and as a FilterLevel to the member with that name,
\* and formatting that member as text gives the canonical upper-case name
\* again.
C19_CanonicalNamesRoundTrip ==
    last.op = "parse" =>
        \A p \in DOMAIN LOG_LEVEL_NAMES :
            last.str \in CaseMixes(LOG_LEVEL_NAMES[p]) =>
                /\ last.filter = Ok(MemberNamed[p])
                /\ last.level = Ok(MemberNamed[p])
                /\ MemberNamed[p] \in Levels =>
                       DisplayLevel(MemberNamed[p]) = LOG_LEVEL_NAMES[p]

\* C20: for every Level L, the long name L.as_str() and the short name
\* L.as_short_str() both parse back to L, and to the FilterLevel member of the
\* same name.
C20_LongAndShortNamesParseBack ==
    last.op = "parse" =>
        \A l \in Levels :
            last.str \in {AsStr(l), AsShortStr(l)} =>
                /\ last.level = Ok(l)
                /\ last.filter = Ok(l)

\* equality of two texts under ASCII case-folding
FoldEqual(a, b) ==
    /\ Len(a) = Len(b)
    /\ \A i \in 1..Len(a) : ASCII_LOWERCASE_MAP(a[i]) = ASCII_LOWERCASE_MAP(b[i])

\* the text is a known level name, long or short, in some case
KnownName(str) ==
    \E n \in Range(LOG_LEVEL_NAMES) \cup Range(LOG_LEVEL_SHORT_NAMES) : FoldEqual(n, str)

\* C21: parsing a Level or a FilterLevel gives Err(()) for every text that is
\* not equal, under ASCII case-folding, to a known level name: the empty
\* string, a strict prefix of a name, a name followed by more characters,
\* "Iinfo".
C21_UnknownTextIsNoMatch ==
    (last.op = "parse" /\ ~KnownName(last.str)) =>
        /\ last.level = Err(Unit)
        /\ last.filter = Err(Unit)

\* C29: from_str of Level and of FilterLevel returns Ok(member) or Err(()) on
\* every input and never panics; "OFF" in any case and the empty string give
\* Err(()) as a Level.
C29_FromStrNeverPanics ==
    last.op = "parse" =>
        /\ \/ last.level = Err(Unit)
           \/ \E l \in Levels : last.level = Ok(l)
        /\ \/ last.filter = Err(Unit)
           \/ \E l \in FilterLevels : last.filter = Ok(l)
        /\ (last.str = <<>> \/ FoldEqual(LOG_LEVEL_NAMES[1], last.str)) =>
               last.level = Err(Unit)

----------------------------------------------------------------------------
(* Claims about the logging macros (checked under SpecMacro) *)

\* the levels at or above each cap, written out
AtOrAbove ==
    [ Off |-> {},
      Critical |-> {"Critical"},
      Error |-> {"Critical", "Error"},
      Warning |-> {"Critical", "Error", "Warning"},
      Info |-> {"Critical", "Error", "Warning", "Info"},
      Debug |-> {"Critical", "Error", "Warning", "Info", "Debug"},
      Trace |-> {"Critical", "Error", "Warning", "Info", "Debug", "Trace"} ]

\* C22: log! and the level-named macros call Logger::log exactly when the
\* record's level is at or above the static cap (as_usize() <= the cap's);
\* with no max_level feature the cap is Debug in a debug build and Info in a
\* release build, so Trace is never forwarded in a debug build, neither Trace
\* nor Debug in a release build, and every level at or above the cap always is.
C22_MacroForwardsUpToStaticCap ==
    last.op = "macro" =>
        /\ last.called = (last.level \in AtOrAbove[StaticMaxLevel(build)])
        /\ build.features = {} =>
               /\ StaticMaxLevel(build) = IF build.debug_assertions THEN "Debug" ELSE "Info"
               /\ last.level = "Trace" => ~last.called
               /\ (~build.debug_assertions /\ last.level = "Debug") => ~last.called
               /\ last.level \in {"Critical", "Error", "Warning", "Info"} => last.called
               /\ (build.debug_assertions /\ last.level = "Debug") => last.called
        /\ last.called =>
               /\ last.ev # <<>>
               /\ \A k \in DOMAIN last.ev : last.ev[k].level = last.level
               /\ \E k \in DOMAIN last.ev : last.ev[k].t = "Sink" /\ last.ev[k].wrote
        /\ ~last.called => last.ev = <<>>

\* debug! in a release build with no feature did nothing
C22_Witness ==
    /\ last.op = "macro"
    /\ last.name = "debug"
    /\ ~build.debug_assertions
    /\ build.features = {}
    /\ ~last.called
    /\ last.ev = <<>>

----------------------------------------------------------------------------
(* Claims about values and key-value groups (checked under SpecKV) *)

\* the emit calls made for a key
EmitsFor(s, key) == { i \in DOMAIN s.att : s.att[i].key = key }

\* the keys of the pairs serialized, in the order they were serialized
LogKeys(s) == [i \in DOMAIN s.log |-> s.log[i].key]

\* C23: serializing a PushFnValue writes exactly one field for its key in
\* every case: the emitted value when the closure calls emit, and the unit
\* value, written when the handle is dropped, when the closure returns Ok or
\* an error (or panics) without emitting; never a second value.
C23_PushFnValueWritesOneField ==
    /\ (last.op = "value" /\ last.v.t = "push") =>
        /\ last.s.calls = <<last.key>>
        /\ Len(last.s.att) = 1
        /\ last.s.att[1].key = last.key
        /\ last.s.att[1].val =
               IF last.v.f \in {"emit", "emit_discard"} THEN "v" ELSE "()"
        /\ last.s.failAt # 1 => last.s.out = last.s.att
        /\ last.v.f = "ok" => last.s.res = Ok(Unit)
        /\ last.v.f = "err" => last.s.res = Err(ClosureError)
    /\ last.op \in {"group", "list"} =>
        \A i \in DOMAIN last.s.log :
            Cardinality(EmitsFor(last.s, last.s.log[i].key)) = 1

\* a closure returned an error without emitting, and the unit value was written
C23_Witness ==
    /\ last.op = "value"
    /\ last.v = PushFnValue("err")
    /\ last.s.out = <<[key |-> last.key, val |-> "()"]>>
    /\ last.s.res = Err(ClosureError)

Reverse(seq) == [i \in DOMAIN seq |-> seq[Len(seq) + 1 - i]]

\* the keys of a group, in the order they are written in the macro
WrittenKeys(pairs) == [i \in DOMAIN pairs |-> pairs[i].key]

\* the keys of the fields accepted by the serializer, in order
OutKeys(s) == [i \in DOMAIN s.out |-> s.out[i].key]

\* C27: within one group built by o!/b!/kv!, the pairs are serialized in the
\* reverse of the order in which they are written: kn, .., k2, k1.
C27_GroupSerializesInReverse ==
    last.op = "group" =>
        /\ IsPrefix(LogKeys(last.s), Reverse(WrittenKeys(last.pairs)))
        /\ IsOk(last.s.res) => LogKeys(last.s) = Reverse(WrittenKeys(last.pairs))
        /\ (IsOk(last.s.res) /\ last.s.failAt = 0) =>
               OutKeys(last.s) = Reverse(WrittenKeys(last.pairs))

\* a group of three pairs written k1, k2, k3 was emitted k3, k2, k1
C27_Witness ==
    /\ last.op = "group"
    /\ WrittenKeys(last.pairs) = <<"k1", "k2", "k3">>
    /\ OutKeys(last.s) = <<"k3", "k2", "k1">>

\* the order in which a sink list serializes its pairs: the child's group,
\* the root's group, then the list of the Logger used as a drain
ListOrder(list) ==
    IF list.t = "multi" THEN <<"k2", "k1", "k3", "k4">> ELSE <<"k2", "k1", "k3">>

\* the pairs a serialization was to go through, in order
FullOrder ==
    IF last.op = "group" THEN Reverse(WrittenKeys(last.pairs))
    ELSE ListOrder(last.list)

\* C28: chain serialization stops at the first failure: when the
\* serialization of a pair (in a node's payload, in the first component of a
\* tuple, in the incoming list of a combined list) returns an error, that
\* error is the result of the whole serialize, no later pair and no older
\* node is serialized or emitted afterwards, and the fields emitted before
\* stay emitted.
C28_SerializationStopsAtFirstError ==
    last.op \in {"group", "list"} =>
        /\ IsPrefix(LogKeys(last.s), FullOrder)
        /\ \A i \in DOMAIN last.s.log :
               i < Len(last.s.log) => IsOk(last.s.log[i].res)
        /\ last.s.log # <<>> => last.s.res = last.s.log[Len(last.s.log)].res
        /\ IsOk(last.s.res) => LogKeys(last.s) = FullOrder
        /\ \A i \in DOMAIN last.s.att :
               \E j \in DOMAIN last.s.log : last.s.log[j].key = last.s.att[i].key
        /\ last.s.out =
               IF last.s.failAt \in DOMAIN last.s.att
               THEN SubSeq(last.s.att, 1, last.s.failAt - 1)
                        \o SubSeq(last.s.att, last.s.failAt + 1, Len(last.s.att))
               ELSE last.s.att

\* the serializer failed the second pair of the incoming chain of a combined
\* list: the first field stays, the root's pair and the drain's list are not
\* serialized
C28_Witness ==
    /\ last.op = "list"
    /\ last.list.t = "multi"
    /\ last.s.res = Err(SerializerError)
    /\ LogKeys(last.s) = <<"k2", "k1">>
    /\ OutKeys(last.s) = <<"k2">>

----------------------------------------------------------------------------
(* Claims about lazy values under drain composition (checked under SpecDrain) *)

\* the invocations of the closure under key in a call's events
Invocations(ev, key) ==
    UNION { { <<k, i>> : i \in { j \in DOMAIN ev[k].lazy : ev[k].lazy[j] = key } } :
            k \in DOMAIN ev }

\* the calls of terminal sinks among a call's events
SinkCalls(ev) == { k \in DOMAIN ev : ev[k].t = "Sink" }

\* C24: the closure of a lazy value in the context is invoked only when a
\* terminal sink serializes the context: no wrapper (Discard, Filter,
\* LevelFilter, MapError, Duplicate, Fuse, IgnoreResult, Mutex, Logger as a
\* drain) serializes it, so a record dropped by a filter or by Discard invokes
\* it zero times, and otherwise it is invoked once per pass of a sink.
C24_LazyValuesOnlyInSinks ==
    last.op = "log" =>
        /\ \A k \in DOMAIN last.ev : last.ev[k].t # "Sink" => last.ev[k].lazy = <<>>
        /\ Cardinality(Invocations(last.ev, "a")) = Cardinality(SinkCalls(last.ev))
        /\ \A k \in SinkCalls(last.ev) :
               /\ Cardinality({ i \in DOMAIN last.ev[k].lazy : last.ev[k].lazy[i] = "a" }) = 1
               /\ Cardinality({ i \in DOMAIN last.ev[k].lazy : last.ev[k].lazy[i] = "b" })
                      = IF \E j \in DOMAIN last.ev : last.ev[j].t = "Logger" /\ IsPrefix(last.ev[j].path, last.ev[k].path)
                        THEN 1 ELSE 0
        /\ SinkCalls(last.ev) = {} =>
               \A key \in LazyKeys : Invocations(last.ev, key) = {}

\* a Filter over a sink dropped the record: no sink was called and no closure
\* was invoked
C24_Witness ==
    /\ last.op = "log"
    /\ D.t = "Filter"
    /\ SinksOf(D) # {}
    /\ last.ev[1].res = Ok(None)
    /\ SinkCalls(last.ev) = {}
    /\ Invocations(last.ev, "a") = {}

----------------------------------------------------------------------------
(* Claims about serialization under sharing (checked under SpecThreads) *)

\* the list a thread has just logged through: its child before it drops its
\* base, its copy afterwards
LoggedList(th) ==
    IF th.pc = "drop_base" THEN th.hs["child"].list ELSE th.hs["copy"].list

\* C25: serializing a chain is idempotent and has no effect on the chain:
\* however often and from however many threads at once the same list is
\* serialized, it emits the same field sequence, and every node, every
\* parent pointer and the set of nodes are left as they were.
C25_SerializationIsIdempotent ==
    [][ /\ \A n \in NodeIds :
               (heap[n].k \in {"kv", "unit"} /\ heap'[n].k = heap[n].k) =>
                   (heap'[n].kv = heap[n].kv /\ heap'[n].next = heap[n].next)
        /\ \A t \in Workers :
               (threads[t].pc = "ser" /\ threads'[t] # threads[t]) =>
                   (heap' = heap /\ darc' = darc)
        /\ last' # last =>
               /\ last'.op = "thread_log"
               /\ last'.out = Fields(heap', LoggedList(threads'[last'.t]))
               /\ last'.out = <<ThreadKeys[last'.t], "a">>
      ]_vars

\* a thread has finished its second pass over its chain while another thread
\* is in the middle of a pass
C25_Witness ==
    /\ last.op = "thread_log"
    /\ threads[last.t].pc = "drop_copy"
    /\ \E u \in Workers :
           /\ u # last.t
           /\ threads[u].pc = "ser"
           /\ threads[u].s.out # <<>>

----------------------------------------------------------------------------
(* Claims about the shape of the chains (checked under Spec) *)

RECURSIVE ChainPath(_, _, _)
\* the cells a serialization visits from n on, following next_node for at
\* most fuel nodes
ChainPath(h, n, fuel) ==
    IF h[n].k = "kv" /\ fuel > 0
    THEN <<n>> \o ChainPath(h, h[n].next, fuel - 1)
    ELSE <<n>>

RECURSIVE SumLen(_, _)
\* the number of fields in the payloads of the cells of a path
SumLen(h, path) ==
    IF path = <<>> THEN 0 ELSE Len(h[Head(path)].kv) + SumLen(h, Tail(path))

\* C26: every chain built by root and new is finite and acyclic and ends at
\* the empty terminator, so serializing it terminates; the number of payloads
\* serialized is the number of nodes from the head to the terminator, which is
\* the logger's derivation depth, however many loggers share those nodes; the
\* lists a Logger used as a drain combines serialize completely as well.
C26_ChainsAreFiniteAndAcyclic ==
    /\ \A i \in Handles :
        LET p == ChainPath(heap, loggers[i].list, MaxNodes)
        IN  /\ heap[p[Len(p)]].k = "unit"
            /\ \A j, k \in DOMAIN p : j # k => p[j] # p[k]
            /\ Len(p) - 1 = Len(hist[i])
            /\ (last.op = "serialize" /\ last.h = i) =>
                   (last.ok /\ Len(last.out) = SumLen(heap, p))
    /\ last.op = "log" =>
        \A k \in DOMAIN last.ev :
            \A j \in DOMAIN last.ev[k].fields : last.ev[k].fields[j] # "<dangling>"

\* a chain of depth two whose root node is shared with another logger was
\* serialized
C26_Witness ==
    /\ last.op = "serialize"
    /\ last.h \in Handles
    /\ Len(hist[last.h]) = 2
    /\ heap[heap[loggers[last.h].list].next].rc > 1

----------------------------------------------------------------------------
(* Claims about nested calls on a Mutex drain (checked under SpecNested) *)

\* C30: with any number of threads logging through the same Mutex-wrapped
\* drain no reachable state is a deadlock: every log or is_enabled call
\* acquires the guard and returns, also when the work done under the guard
\* calls log or is_enabled on a Logger over the same Mutex.  No thread is ever
\* blocked for good on the guard, and none fails to return from its call.
C30_NoDeadlockUnderMutex ==
    \A t \in ThreadIds :
        /\ threads[t].pc # "blocked"
        /\ threads[t].pc # "dead"

====
